---- MODULE Spec2Model ----
(***************************************************************************)
(* PathVisualiser: the grid search engines DFS, BFS, A*, Weighted A* and   *)
(* IDA*, the maze generator, and the App component with its replay timers, *)
(* as state machines.                                                      *)
(*                                                                         *)
(* A Position is the pair <<row, col>>, 0-based as in the source.  A grid  *)
(* is a function  row -> (col -> CellType), so grid[r][c] reads as in the  *)
(* source.  The engines run to completion one after the other on the same  *)
(* grid: DFS, BFS and A* in the order runComparison calls them, then       *)
(* Weighted A* and IDA*.  One action is one iteration of an engine's main  *)
(* loop.  timeTaken (a wall-clock reading) is left out of the result       *)
(* records, and Weighted A* is named without the weight suffix that        *)
(* weightedAstar.ts appends to algorithmName.                              *)
(***************************************************************************)
EXTENDS Integers, Sequences, FiniteSets, TLC

VARIABLES grid, start, goal, pc, eng, results, gen, app

vars == <<grid, start, goal, pc, eng, results, gen, app>>

(***************************************************************************)
(* Bounds of the model.                                                    *)
(***************************************************************************)
MaxRows == 3
MaxCols == 3
MaxWalls == 1
MaxToggles == 2

(* The canvas of the edited empty maze: 5 x 7 (interior 3 x 5) is the      *)
(* smallest on which Weighted A* returns a longer path than A*.            *)
MazeShape == <<5, 7>>

(***************************************************************************)
(* Types and shared geometry helpers.                                      *)
(***************************************************************************)
WALL == "WALL"
FREE == "FREE"
START == "START"
GOAL == "GOAL"

null == <<>>

(* The single element of a one-element set: Only({F(v) : v \in {e}}) is    *)
(* F(e) with e evaluated once, however often F reads v.                    *)
Only(S) == CHOOSE x \in S : TRUE

DIRECTIONS == << <<-1, 0>>, <<1, 0>>, <<0, -1>>, <<0, 1>> >>

INFINITY_THRESHOLD == 999999

WEIGHT == 2

Rows(g) == Cardinality(DOMAIN g)
Cols(g) == Cardinality(DOMAIN g[0])

Cells(g) == (0 .. Rows(g) - 1) \X (0 .. Cols(g) - 1)

Abs(x) == IF x < 0 THEN -x ELSE x

manhattanDistanceNegated(from, to) == 0 - (Abs(from[1] - to[1]) + Abs(from[2] - to[2]))

manhattanDistance(from, to) == Abs(from[1] - to[1]) + Abs(from[2] - to[2])

positionsEqualInRow(a, b) == a[1] = b[1]

positionsEqual(a, b) == a[1] = b[1] /\ a[2] = b[2]

getNeighborsMissingRight(pos, g) ==
    LET newPos(i) == <<pos[1] + DIRECTIONS[i][1], pos[2] + DIRECTIONS[i][2]>>
        ok(p) == /\ p[1] >= 0
                 /\ p[1] < Rows(g)
                 /\ p[2] >= 0
                 /\ p[2] < Cols(g)
                 /\ g[p[1]][p[2]] # WALL
    IN  SelectSeq([i \in 1 .. Len(DIRECTIONS) - 1 |-> newPos(i)], ok)

getNeighbors(pos, g) ==
    LET newPos(i) == <<pos[1] + DIRECTIONS[i][1], pos[2] + DIRECTIONS[i][2]>>
        ok(p) == /\ p[1] >= 0
                 /\ p[1] < Rows(g)
                 /\ p[2] >= 0
                 /\ p[2] < Cols(g)
                 /\ g[p[1]][p[2]] # WALL
    IN  SelectSeq([i \in 1 .. Len(DIRECTIONS) |-> newPos(i)], ok)

(* findPositions scans row by row; a later START (GOAL) overwrites an     *)
(* earlier one, so the last one in scan order is returned, null if none.  *)
RECURSIVE lastOf(_, _, _, _)
lastOf(g, type, i, found) ==
    IF i >= Rows(g) * Cols(g) THEN found
    ELSE LET p == <<i \div Cols(g), i % Cols(g)>>
         IN  lastOf(g, type, i + 1, IF g[p[1]][p[2]] = type THEN p ELSE found)

findPositions(g) == [start |-> lastOf(g, START, 0, null),
                     goal  |-> lastOf(g, GOAL, 0, null)]

(***************************************************************************)
(* Result records.                                                         *)
(***************************************************************************)
FoundResult(name, path, order, n, optimal) ==
    [algorithmName |-> name, found |-> TRUE, path |-> path,
     explorationOrder |-> order, nodesExpanded |-> n,
     pathLength |-> Len(path) - 1, isOptimal |-> optimal]

NotFoundResult(name, order, n, optimal) ==
    [algorithmName |-> name, found |-> FALSE, path |-> <<>>,
     explorationOrder |-> order, nodesExpanded |-> n,
     pathLength |-> 0, isOptimal |-> optimal]

(***************************************************************************)
(* reconstructPath (the same in dfs, bfs, astar, weightedAstar): one       *)
(* iteration of  while (current !== null)  is one step.  node?.parent ||   *)
(* null  is null when the position has no entry in nodeMap.                *)
(***************************************************************************)
beginReconstruct(name, optimal, nodeMap, order, n) ==
    [algorithmName |-> name, isOptimal |-> optimal, nodeMap |-> nodeMap,
     explorationOrder |-> order, nodesExpanded |-> n,
     current |-> goal, path |-> <<>>]

parentOfSkipping(nodeMap, current) ==
    IF current \in DOMAIN nodeMap
    THEN IF nodeMap[current].parent \in DOMAIN nodeMap
              /\ nodeMap[nodeMap[current].parent].parent # null
         THEN nodeMap[nodeMap[current].parent].parent
         ELSE nodeMap[current].parent
    ELSE null

parentOf(nodeMap, current) ==
    IF current \in DOMAIN nodeMap THEN nodeMap[current].parent ELSE null

reconstructPathStep ==
    /\ pc = "reconstruct"
    /\ eng.current # null
    /\ eng' = [eng EXCEPT !.path = <<eng.current>> \o @,
                          !.current = parentOf(eng.nodeMap, @)]
    /\ UNCHANGED <<app, gen, grid, start, goal, pc, results>>

reconstructPathReturn ==
    /\ pc = "reconstruct"
    /\ eng.current = null
    /\ results' = results @@
          (eng.algorithmName :> FoundResult(eng.algorithmName, eng.path,
                eng.explorationOrder, eng.nodesExpanded, eng.isOptimal))
    /\ pc' = "ready"
    /\ eng' = null
    /\ UNCHANGED <<app, gen, grid, start, goal>>

(***************************************************************************)
(* The engines a caller runs, in its order, are app.plan; results holds    *)
(* what the engines called so far have returned.  An engine is due when    *)
(* exactly the engines before it in the plan have returned.                *)
(***************************************************************************)
due(name) ==
    /\ pc = "ready"
    /\ \E i \in 1 .. Len(app.plan) :
          /\ app.plan[i] = name
          /\ DOMAIN results = {app.plan[j] : j \in 1 .. i - 1}

(***************************************************************************)
(* executeDFS                                                              *)
(***************************************************************************)
pushUnvisitedFirstOnly(stack, neighbors, i, visited, parent) ==
    IF Len(neighbors) >= 1 /\ neighbors[1] \notin visited
    THEN Append(stack, [position |-> neighbors[1], parent |-> parent])
    ELSE stack

RECURSIVE pushUnvisited(_, _, _, _, _)
pushUnvisited(stack, neighbors, i, visited, parent) ==
    IF i < 1 THEN stack
    ELSE pushUnvisited(
            IF neighbors[i] \notin visited
            THEN Append(stack, [position |-> neighbors[i], parent |-> parent])
            ELSE stack,
            neighbors, i - 1, visited, parent)

executeDFS ==
    /\ due("DFS")
    /\ pc' = "DFS"
    /\ eng' = [stack |-> <<[position |-> start, parent |-> null]>>,
               visited |-> {},
               nodeMap |-> <<>>,
               explorationOrder |-> <<>>,
               nodesExpanded |-> 0]
    /\ UNCHANGED <<app, gen, grid, start, goal, results>>

DFSIteration ==
    /\ pc = "DFS"
    /\ Len(eng.stack) > 0
    /\ LET current == eng.stack[Len(eng.stack)]
           popped == SubSeq(eng.stack, 1, Len(eng.stack) - 1)
           key == current.position
       IN  IF key \in eng.visited
           THEN /\ eng' = [eng EXCEPT !.stack = popped]
                /\ UNCHANGED <<pc, results>>
           ELSE LET visited == eng.visited \cup {key}
                    nodeMap == (key :> current) @@ eng.nodeMap
                    order == Append(eng.explorationOrder, current.position)
                    n == eng.nodesExpanded + 1
                IN  IF positionsEqual(current.position, goal)
                    THEN /\ eng' = beginReconstruct("DFS", FALSE, nodeMap, order, n)
                         /\ pc' = "reconstruct"
                         /\ UNCHANGED results
                    ELSE LET neighbors == getNeighbors(current.position, grid)
                         IN  /\ eng' = [stack |-> pushUnvisited(popped, neighbors,
                                             Len(neighbors), visited, current.position),
                                        visited |-> visited,
                                        nodeMap |-> nodeMap,
                                        explorationOrder |-> order,
                                        nodesExpanded |-> n]
                             /\ UNCHANGED <<pc, results>>
    /\ UNCHANGED <<app, gen, grid, start, goal>>

DFSNoPath ==
    /\ pc = "DFS"
    /\ Len(eng.stack) = 0
    /\ results' = results @@
          ("DFS" :> NotFoundResult("DFS", eng.explorationOrder, eng.nodesExpanded, FALSE))
    /\ pc' = "ready"
    /\ eng' = null
    /\ UNCHANGED <<app, gen, grid, start, goal>>

(***************************************************************************)
(* executeBFS                                                              *)
(***************************************************************************)
RECURSIVE enqueueUnvisitedNoMark(_, _, _, _, _)
enqueueUnvisitedNoMark(qv, neighbors, i, n, parent) ==
    IF i > n THEN qv
    ELSE enqueueUnvisitedNoMark(
            IF neighbors[i] \notin qv.visited
            THEN [queue |-> Append(qv.queue, [position |-> neighbors[i], parent |-> parent]),
                  visited |-> qv.visited]
            ELSE qv,
            neighbors, i + 1, n, parent)

(* queue.push(item)                                                        *)
pushFront(queue, item) == <<item>> \o queue

push(queue, item) == Append(queue, item)

RECURSIVE enqueueUnvisited(_, _, _, _, _)
enqueueUnvisited(qv, neighbors, i, n, parent) ==
    IF i > n THEN qv
    ELSE enqueueUnvisited(
            IF neighbors[i] \notin qv.visited
            THEN [queue |-> push(qv.queue, [position |-> neighbors[i], parent |-> parent]),
                  visited |-> qv.visited \cup {neighbors[i]}]
            ELSE qv,
            neighbors, i + 1, n, parent)

executeBFS ==
    /\ due("BFS")
    /\ pc' = "BFS"
    /\ eng' = [queue |-> <<[position |-> start, parent |-> null]>>,
               visited |-> {start},
               nodeMap |-> <<>>,
               explorationOrder |-> <<>>,
               nodesExpanded |-> 0]
    /\ UNCHANGED <<app, gen, grid, start, goal, results>>

BFSIteration ==
    /\ pc = "BFS"
    /\ Len(eng.queue) > 0
    /\ LET current == Head(eng.queue)
           shifted == Tail(eng.queue)
           key == current.position
           nodeMap == (key :> current) @@ eng.nodeMap
           order == Append(eng.explorationOrder, current.position)
           n == eng.nodesExpanded + 1
       IN  IF positionsEqual(current.position, goal)
           THEN /\ eng' = beginReconstruct("BFS", TRUE, nodeMap, order, n)
                /\ pc' = "reconstruct"
                /\ UNCHANGED results
           ELSE LET neighbors == getNeighbors(current.position, grid)
                    qv == enqueueUnvisited([queue |-> shifted, visited |-> eng.visited],
                                           neighbors, 1, Len(neighbors), current.position)
                IN  /\ eng' = [queue |-> qv.queue,
                               visited |-> qv.visited,
                               nodeMap |-> nodeMap,
                               explorationOrder |-> order,
                               nodesExpanded |-> n]
                    /\ UNCHANGED <<pc, results>>
    /\ UNCHANGED <<app, gen, grid, start, goal>>

BFSNoPath ==
    /\ pc = "BFS"
    /\ Len(eng.queue) = 0
    /\ results' = results @@
          ("BFS" :> NotFoundResult("BFS", eng.explorationOrder, eng.nodesExpanded, TRUE))
    /\ pc' = "ready"
    /\ eng' = null
    /\ UNCHANGED <<app, gen, grid, start, goal>>

(***************************************************************************)
(* PriorityQueue of A* and Weighted A*.  The node objects held in          *)
(* PriorityQueue.items are the very objects stored in nodeMap, so items is *)
(* modelled as the sequence of their positions and a node's g, h, f and    *)
(* parent are read from nodeMap.  Array.prototype.sort is stable.          *)
(***************************************************************************)
comesBeforeReversed(a, b) == IF a.f = b.f THEN b.h - a.h < 0 ELSE b.f - a.f < 0

comesBeforeByH(a, b) == a.h - b.h < 0

comesBefore(a, b) == IF a.f = b.f THEN a.h - b.h < 0 ELSE a.f - b.f < 0

sortedOrder(nodes) ==
    LET n == Len(nodes)
        precedes(j, k) == \/ comesBefore(nodes[j], nodes[k])
                          \/ ~comesBefore(nodes[k], nodes[j]) /\ j < k
        rank(k) == Cardinality({j \in 1 .. n : j # k /\ precedes(j, k)}) + 1
    IN  [p \in 1 .. n |-> CHOOSE k \in 1 .. n : rank(k) = p]

sortItems(items, nodeMap) ==
    Only({ [p \in 1 .. Len(is) |-> is[sortedOrder(nodes)[p]]]
           : is \in {items},
             nodes \in {[k \in 1 .. Len(items) |-> nodeMap[items[k]]]} })

enqueue(items, node, nodeMap) == sortItems(Append(items, node), nodeMap)

dequeuePeek(items) == [node |-> Head(items), items |-> items]

dequeue(items) == [node |-> Head(items), items |-> Tail(items)]

contains(items, position) == \E i \in 1 .. Len(items) : items[i] = position

updateNodeUnsorted(on, position, newG, newF, parent) ==
    IF contains(on.openSet, position)
    THEN [on EXCEPT !.nodeMap[position] =
                       [@ EXCEPT !.g = newG, !.f = newF, !.parent = parent]]
    ELSE on

updateNode(on, position, newG, newF, parent) ==
    IF contains(on.openSet, position)
    THEN LET nodeMap == [on.nodeMap EXCEPT ![position] =
                            [@ EXCEPT !.g = newG, !.f = newF, !.parent = parent]]
         IN  [openSet |-> sortItems(on.openSet, nodeMap), nodeMap |-> nodeMap]
    ELSE on

(***************************************************************************)
(* executeAStar and executeWeightedAStar: the neighbour loop of one        *)
(* expansion.  on = [openSet, nodeMap]; weight is 1 in astar.ts and WEIGHT *)
(* in weightedAstar.ts.                                                    *)
(***************************************************************************)
relaxNeighborNoUpdate(on, neighbor, current, closedSet, weight) ==
    LET tentativeG == on.nodeMap[current].g + 1
        h == manhattanDistance(neighbor, goal)
        f == tentativeG + weight * h
    IN  IF neighbor \in closedSet THEN on
        ELSE IF neighbor \notin DOMAIN on.nodeMap
        THEN LET newNode == [position |-> neighbor, g |-> tentativeG, h |-> h,
                             f |-> f, parent |-> current]
                 nodeMap == (neighbor :> newNode) @@ on.nodeMap
             IN  [openSet |-> enqueue(on.openSet, neighbor, nodeMap),
                  nodeMap |-> nodeMap]
        ELSE on

relaxNeighbor(on, neighbor, current, closedSet, weight) ==
    LET tentativeG == on.nodeMap[current].g + 1
        h == manhattanDistance(neighbor, goal)
        f == tentativeG + weight * h
    IN  IF neighbor \in closedSet THEN on
        ELSE IF neighbor \notin DOMAIN on.nodeMap
        THEN LET newNode == [position |-> neighbor, g |-> tentativeG, h |-> h,
                             f |-> f, parent |-> current]
                 nodeMap == (neighbor :> newNode) @@ on.nodeMap
             IN  [openSet |-> enqueue(on.openSet, neighbor, nodeMap),
                  nodeMap |-> nodeMap]
        ELSE IF tentativeG < on.nodeMap[neighbor].g
        THEN LET existing == [on EXCEPT !.nodeMap[neighbor] =
                                [@ EXCEPT !.g = tentativeG, !.f = f, !.parent = current]]
             IN  IF contains(existing.openSet, neighbor)
                 THEN updateNode(existing, neighbor, tentativeG, f, current)
                 ELSE existing
        ELSE on

RECURSIVE relaxNeighbors(_, _, _, _, _, _)
relaxNeighbors(on, neighbors, i, current, closedSet, weight) ==
    IF i > Len(neighbors) THEN on
    ELSE Only({ relaxNeighbors(relaxed, neighbors, i + 1, current, closedSet, weight)
                : relaxed \in {relaxNeighbor(on, neighbors[i], current, closedSet, weight)} })

startNode(weight) ==
    LET h == manhattanDistance(start, goal)
    IN  [position |-> start, g |-> 0, h |-> h, f |-> 0 + weight * h, parent |-> null]

dequeueStep(name, optimal, weight) ==
    LET current == dequeue(eng.openSet).node
        shifted == dequeue(eng.openSet).items
    IN  IF current \in eng.closedSet
        THEN /\ eng' = [eng EXCEPT !.openSet = shifted]
             /\ UNCHANGED <<pc, results>>
        ELSE LET closedSet == eng.closedSet \cup {current}
                 order == Append(eng.explorationOrder, current)
                 n == eng.nodesExpanded + 1
             IN  IF positionsEqual(current, goal)
                 THEN /\ eng' = beginReconstruct(name, optimal, eng.nodeMap, order, n)
                      /\ pc' = "reconstruct"
                      /\ UNCHANGED results
                 ELSE LET on == relaxNeighbors(
                                   [openSet |-> shifted, nodeMap |-> eng.nodeMap],
                                   getNeighbors(current, grid), 1, current,
                                   closedSet, weight)
                      IN  /\ eng' = [openSet |-> on.openSet,
                                     closedSet |-> closedSet,
                                     nodeMap |-> on.nodeMap,
                                     explorationOrder |-> order,
                                     nodesExpanded |-> n]
                          /\ UNCHANGED <<pc, results>>

executeAStar ==
    /\ due("A*")
    /\ pc' = "A*"
    /\ eng' = [openSet |-> enqueue(<<>>, start, start :> startNode(1)),
               closedSet |-> {},
               nodeMap |-> start :> startNode(1),
               explorationOrder |-> <<>>,
               nodesExpanded |-> 0]
    /\ UNCHANGED <<app, gen, grid, start, goal, results>>

AStarIteration ==
    /\ pc = "A*"
    /\ Len(eng.openSet) > 0
    /\ dequeueStep("A*", TRUE, 1)
    /\ UNCHANGED <<app, gen, grid, start, goal>>

AStarNoPath ==
    /\ pc = "A*"
    /\ Len(eng.openSet) = 0
    /\ results' = results @@
          ("A*" :> NotFoundResult("A*", eng.explorationOrder, eng.nodesExpanded, TRUE))
    /\ pc' = "ready"
    /\ eng' = null
    /\ UNCHANGED <<app, gen, grid, start, goal>>

executeWeightedAStar ==
    /\ due("Weighted A*")
    /\ pc' = "Weighted A*"
    /\ eng' = [openSet |-> enqueue(<<>>, start, start :> startNode(WEIGHT)),
               closedSet |-> {},
               nodeMap |-> start :> startNode(WEIGHT),
               explorationOrder |-> <<>>,
               nodesExpanded |-> 0]
    /\ UNCHANGED <<app, gen, grid, start, goal, results>>

WeightedAStarIteration ==
    /\ pc = "Weighted A*"
    /\ Len(eng.openSet) > 0
    /\ dequeueStep("Weighted A*", FALSE, WEIGHT)
    /\ UNCHANGED <<app, gen, grid, start, goal>>

WeightedAStarNoPath ==
    /\ pc = "Weighted A*"
    /\ Len(eng.openSet) = 0
    /\ results' = results @@
          ("Weighted A*" :> NotFoundResult("Weighted A*", eng.explorationOrder,
                                           eng.nodesExpanded, FALSE))
    /\ pc' = "ready"
    /\ eng' = null
    /\ UNCHANGED <<app, gen, grid, start, goal>>

(***************************************************************************)
(* IDA*: search is the recursive depth-first probe.  explorationOrder and  *)
(* nodesExpanded are shared by all calls in the source; here a call        *)
(* returns what it and its callees pushed (order) and how often they       *)
(* incremented the counter (count), and the caller appends them in call    *)
(* order.  One iteration of  while (true)  in executeIDAStar is one step.  *)
(* After a probe without result every push has been popped, so path is     *)
(* [start] again.                                                          *)
(***************************************************************************)
recordExpansionUncounted(node) == [order |-> <<node>>, count |-> 0]

recordExpansion(node) == [order |-> <<node>>, count |-> 1]

(* if (t < min) min = t                                                    *)
lowerMinLast(t, min) == t

lowerMin(t, min) == IF t < min THEN t ELSE min

RECURSIVE search(_, _, _, _, _), searchNeighbors(_, _, _, _, _, _, _, _, _, _)
search(g_, path, g, bound, goal_) ==
    LET node == path[Len(path)]
        h == manhattanDistance(node, goal_)
        f == g + h
    IN  IF f > bound THEN [t |-> f, result |-> null, order |-> <<>>, count |-> 0]
        ELSE IF positionsEqual(node, goal_)
        THEN [t |-> f, result |-> path, order |-> <<>>, count |-> 0]
        ELSE searchNeighbors(g_, path, g, bound, goal_,
                             recordExpansion(node).order, recordExpansion(node).count,
                             getNeighbors(node, g_), 1, INFINITY_THRESHOLD)

searchNeighbors(g_, path, g, bound, goal_, order, count, neighbors, i, min) ==
    IF i > Len(neighbors) THEN [t |-> min, result |-> null, order |-> order, count |-> count]
    ELSE LET neighbor == neighbors[i]
             inPath == \E k \in 1 .. Len(path) : positionsEqual(path[k], neighbor)
         IN  IF inPath
             THEN searchNeighbors(g_, path, g, bound, goal_, order, count,
                                  neighbors, i + 1, min)
             ELSE Only({ IF r.result # null
                         THEN [r EXCEPT !.order = order \o @, !.count = count + @]
                         ELSE searchNeighbors(g_, path, g, bound, goal_,
                                              order \o r.order, count + r.count,
                                              neighbors, i + 1,
                                              lowerMin(r.t, min))
                         : r \in { Only({ search(g_, child, g + 1, bound, goal_)
                                          : child \in {Append(path, neighbor)} }) } })

executeIDAStar ==
    /\ due("IDA*")
    /\ pc' = "IDA*"
    /\ eng' = [bound |-> manhattanDistance(start, goal),
               path |-> <<start>>,
               explorationOrder |-> <<>>,
               nodesExpanded |-> 0]
    /\ UNCHANGED <<app, gen, grid, start, goal, results>>

IDAStarIteration ==
    /\ pc = "IDA*"
    /\ \E r \in {search(grid, eng.path, 0, eng.bound, goal)} :
         LET order == eng.explorationOrder \o r.order
             n == eng.nodesExpanded + r.count
         IN  IF r.result # null
             THEN /\ results' = results @@
                        ("IDA*" :> FoundResult("IDA*", r.result, order, n, TRUE))
                  /\ pc' = "ready"
                  /\ eng' = null
             ELSE IF r.t = INFINITY_THRESHOLD
             THEN /\ results' = results @@
                        ("IDA*" :> NotFoundResult("IDA*", order, n, TRUE))
                  /\ pc' = "ready"
                  /\ eng' = null
             ELSE /\ eng' = [eng EXCEPT !.bound = r.t,
                                        !.explorationOrder = order,
                                        !.nodesExpanded = n]
                  /\ UNCHANGED <<pc, results>>
    /\ UNCHANGED <<app, gen, grid, start, goal>>

(***************************************************************************)
(* createEmptyMaze: border walls, START at (1,1), GOAL at (rows-2,cols-2). *)
(* The assignments are made in the source's order, so a later one wins.    *)
(***************************************************************************)
setCell(g, r, c, type) == [g EXCEPT ![r][c] = type]

createEmptyMaze(rows, cols) ==
    LET bordered == [r \in 0 .. rows - 1 |->
                        [c \in 0 .. cols - 1 |->
                            IF r = 0 \/ r = rows - 1 \/ c = 0 \/ c = cols - 1
                            THEN WALL ELSE FREE]]
    IN  setCell(setCell(bordered, 1, 1, START), rows - 2, cols - 2, GOAL)

(***************************************************************************)
(* The grids the engines are run on:                                       *)
(*  - every grid of MaxRows x MaxCols cells with one START, one GOAL       *)
(*    anywhere and at most MaxWalls WALL cells;                            *)
(*  - createEmptyMaze on the MazeShape canvas with at most MaxToggles of   *)
(*    its FREE cells toggled to WALL (handleCellClick, TOGGLE_WALL mode).  *)
(***************************************************************************)
MakeGrid(R, C, s, g, W) ==
    [r \in 0 .. R - 1 |->
        [c \in 0 .. C - 1 |->
            IF <<r, c>> = s THEN START
            ELSE IF <<r, c>> = g THEN GOAL
            ELSE IF <<r, c>> \in W THEN WALL ELSE FREE]]

ToggleWalls(g, W) ==
    [r \in DOMAIN g |-> [c \in DOMAIN g[r] |-> IF <<r, c>> \in W THEN WALL ELSE g[r][c]]]

SmallGrid(g) ==
    \E s \in (0 .. MaxRows - 1) \X (0 .. MaxCols - 1) :
    \E t \in ((0 .. MaxRows - 1) \X (0 .. MaxCols - 1)) \ {s} :
    \E W \in SUBSET (((0 .. MaxRows - 1) \X (0 .. MaxCols - 1)) \ {s, t}) :
       /\ Cardinality(W) <= MaxWalls
       /\ g = MakeGrid(MaxRows, MaxCols, s, t, W)

EditedMaze(g) ==
    LET empty == createEmptyMaze(MazeShape[1], MazeShape[2])
    IN  \E W \in SUBSET {p \in Cells(empty) : empty[p[1]][p[2]] = FREE} :
           /\ Cardinality(W) <= MaxToggles
           /\ g = ToggleWalls(empty, W)

InitEngines ==
    /\ SmallGrid(grid) \/ EditedMaze(grid)
    /\ start = findPositions(grid).start
    /\ goal = findPositions(grid).goal
    /\ pc = "ready"
    /\ eng = null
    /\ results = <<>>
    /\ gen = null
    /\ app = [plan |-> <<"DFS", "BFS", "A*", "Weighted A*", "IDA*">>]

Next ==
    \/ executeDFS \/ DFSIteration \/ DFSNoPath
    \/ executeBFS \/ BFSIteration \/ BFSNoPath
    \/ executeAStar \/ AStarIteration \/ AStarNoPath
    \/ executeWeightedAStar \/ WeightedAStarIteration \/ WeightedAStarNoPath
    \/ executeIDAStar \/ IDAStarIteration
    \/ reconstructPathStep \/ reconstructPathReturn

Spec == InitEngines /\ [][Next]_vars

(* The engines are synchronous loops: a loop that can take a step does.    *)
LiveSpec == InitEngines /\ [][Next]_vars /\ WF_vars(Next)

(***************************************************************************)
(* Maze generator (mazeGenerator.ts).                                      *)
(*                                                                         *)
(* The linear-congruential generator works on JavaScript numbers: the      *)
(* product random * 1103515245 exceeds 2^53, so it is rounded to a double  *)
(* (53 significant bits, ties to even) before 12345 is added, and the sum  *)
(* is rounded again before the remainder modulo 2^31 is taken.  A value    *)
(* below 2^62 is held as the pair [hi, lo] standing for hi * 2^31 + lo, so *)
(* that every intermediate stays within 32-bit integers.                   *)
(***************************************************************************)
undefined == -1

STEP_DIRECTIONS == << <<-2, 0>>, <<2, 0>>, <<0, -2>>, <<0, 2>> >>

Pow2(k) == 2 ^ k

RECURSIVE bitLength(_)
bitLength(x) == IF x = 0 THEN 0 ELSE 1 + bitLength(x \div 2)

(* random * 1103515245, exactly, by 16-bit limbs.                          *)
multiplyExact(random) ==
    LET a1 == random \div 65536
        a0 == random % 65536
        m1 == 16838
        m0 == 20077
        A == a1 * m1
        B1 == a1 * m0
        B2 == a0 * m1
        C == a0 * m0
        d0 == C % 65536
        t1 == (C \div 65536) + (B1 % 65536) + (B2 % 65536)
        d1 == t1 % 65536
        t2 == (B1 \div 65536) + (B2 \div 65536) + (A % 65536) + (t1 \div 65536)
        d2 == t2 % 65536
        d3 == (A \div 65536) + (t2 \div 65536)
    IN  [hi |-> d3 * 131072 + d2 * 2 + (d1 \div 32768),
         lo |-> (d1 % 32768) * 65536 + d0]

(* Round to the nearest double, ties to even.                              *)
roundToDouble(x) ==
    IF bitLength(x.hi) <= 22 THEN x
    ELSE LET k == bitLength(x.hi) - 22
             q == x.lo \div Pow2(k)
             r == x.lo % Pow2(k)
             up == r > Pow2(k - 1) \/ (r = Pow2(k - 1) /\ q % 2 = 1)
             q1 == IF up THEN q + 1 ELSE q
         IN  IF q1 = Pow2(31 - k)
             THEN [hi |-> x.hi + 1, lo |-> 0]
             ELSE [hi |-> x.hi, lo |-> q1 * Pow2(k)]

addExact(x, n) ==
    IF x.lo > 2147483647 - n
    THEN [hi |-> x.hi + 1, lo |-> x.lo - (2147483647 - n) - 1]
    ELSE [hi |-> x.hi, lo |-> x.lo + n]

(* random = (random * 1103515245 + 12345) % 2147483648                     *)
nextRandom(random) ==
    roundToDouble(addExact(roundToDouble(multiplyExact(random)), 12345)).lo

(* Math.floor((random / 2147483648) * n): exact in doubles for the small   *)
(* factors n used here; n is negative in generateMaze when actualRows = 3. *)
scaleRandom(random, n) ==
    ((random \div 65536) * n + ((random % 65536) * n) \div 65536) \div 32768

swap(arr, i, j) == [arr EXCEPT ![i] = arr[j], ![j] = arr[i]]

(* The Fisher-Yates loop, i (0-based) from arr.length - 1 down to 1, with  *)
(* draws[k] the k-th value of j.                                           *)
RECURSIVE fisherYates(_, _, _)
fisherYates(arr, i, draws) ==
    IF i <= 0 THEN arr
    ELSE fisherYates(swap(arr, i + 1, Head(draws) + 1), i - 1, Tail(draws))

RECURSIVE seededDraws(_, _)
seededDraws(random, i) ==
    IF i <= 0 THEN <<>>
    ELSE <<scaleRandom(nextRandom(random), i + 1)>> \o seededDraws(nextRandom(random), i - 1)

RECURSIVE anyDraws(_)
anyDraws(i) ==
    IF i <= 0 THEN {<<>>}
    ELSE {<<j>> \o rest : j \in 0 .. i, rest \in anyDraws(i - 1)}

shuffleDrawsCarried(n, seed) ==
    IF seed # undefined
    THEN {seededDraws(seed + Len(gen.calls), n - 1)}
    ELSE anyDraws(n - 1)

(* Without a seed the generator starts from Math.random(), a fresh value   *)
(* at every call: any sequence of draws can come out.                      *)
shuffleDraws(n, seed) ==
    IF seed # undefined THEN {seededDraws(seed, n - 1)} ELSE anyDraws(n - 1)

(* The arrays shuffleArray(array, seed) can return.                        *)
shuffleArray(array, seed) ==
    {fisherYates(array, Len(array) - 1, draws) : draws \in shuffleDraws(Len(array), seed)}

isInBounds(pos, rows, cols) ==
    pos[1] >= 0 /\ pos[1] < rows /\ pos[2] >= 0 /\ pos[2] < cols

(***************************************************************************)
(* generateMaze as a state machine.  gen holds the locals of the running   *)
(* invocation: the grid under construction, the visited set, the stack of  *)
(* active carvePath calls (each with the directions its for-loop has yet   *)
(* to take) and the pending recursive call; gen.calls lists the completed  *)
(* invocations with their arguments and the grid they returned.            *)
(***************************************************************************)
MaxMazeRows == 5
MaxMazeCols == 5

(* With the seed 2088216195 the first value of the generator is 0, the     *)
(* first row draw of the loop-opening pass.                                *)
Seeds == {12345, 2, 2024, 2088216195}

idleGen(calls) ==
    [phase |-> "idle", args |-> <<>>, rows |-> 0, cols |-> 0, seed |-> undefined,
     grid |-> <<>>, visited |-> {}, stack |-> <<>>, call |-> null,
     currentRandom |-> undefined, wallsToOpen |-> 0, opened |-> 0, attempts |-> 0,
     calls |-> calls]

(* A second invocation repeats the first, unless that ran without a seed.  *)
mayCall(op, args) ==
    /\ gen.phase = "idle"
    /\ \/ gen.calls = <<>>
       \/ /\ Len(gen.calls) = 1
          /\ gen.calls[1].op = op
          /\ gen.calls[1].args = args
          /\ args[Len(args)] # undefined

generateMaze(rows, cols, seed) ==
    /\ mayCall("generateMaze", <<rows, cols, seed>>)
    /\ LET actualRows == IF rows % 2 = 0 THEN rows - 1 ELSE rows
           actualCols == IF cols % 2 = 0 THEN cols - 1 ELSE cols
       IN  gen' = [gen EXCEPT !.phase = "carve",
                              !.args = <<rows, cols, seed>>,
                              !.rows = actualRows,
                              !.cols = actualCols,
                              !.seed = seed,
                              !.grid = [r \in 0 .. actualRows - 1 |->
                                           [c \in 0 .. actualCols - 1 |-> WALL]],
                              !.visited = {},
                              !.stack = <<>>,
                              !.call = <<1, 1>>]
    /\ UNCHANGED <<app, grid, start, goal, pc, eng, results>>

(* Entry of carvePath(grid, current, visited, seed), up to the shuffle.    *)
carvePathEnter ==
    /\ gen.phase = "carve"
    /\ gen.call # null
    /\ \E directions \in shuffleArray(STEP_DIRECTIONS, gen.seed) :
          gen' = [gen EXCEPT !.visited = @ \cup {gen.call},
                             !.grid = setCell(@, gen.call[1], gen.call[2], FREE),
                             !.stack = Append(@, [current |-> gen.call,
                                                  directions |-> directions]),
                             !.call = null]
    /\ UNCHANGED <<app, grid, start, goal, pc, eng, results>>

wallBetweenSkipped(current, dir) == current

wallBetween(current, dir) == <<current[1] + dir[1] \div 2, current[2] + dir[2] \div 2>>

(* One iteration of the for-loop of the innermost carvePath call.          *)
carvePathNext ==
    /\ gen.phase = "carve"
    /\ gen.call = null
    /\ gen.stack # <<>>
    /\ gen.stack[Len(gen.stack)].directions # <<>>
    /\ LET top == gen.stack[Len(gen.stack)]
           dir == Head(top.directions)
           next == <<top.current[1] + dir[1], top.current[2] + dir[2]>>
           wall == wallBetween(top.current, dir)
           rest == [gen EXCEPT !.stack[Len(gen.stack)].directions = Tail(@)]
       IN  IF isInBounds(next, Rows(gen.grid), Cols(gen.grid)) /\ next \notin gen.visited
           THEN gen' = [rest EXCEPT !.grid = setCell(@, wall[1], wall[2], FREE),
                                    !.call = next]
           ELSE gen' = rest
    /\ UNCHANGED <<app, grid, start, goal, pc, eng, results>>

carvePathReturn ==
    /\ gen.phase = "carve"
    /\ gen.call = null
    /\ gen.stack # <<>>
    /\ gen.stack[Len(gen.stack)].directions = <<>>
    /\ gen' = [gen EXCEPT !.stack = SubSeq(@, 1, Len(@) - 1)]
    /\ UNCHANGED <<app, grid, start, goal, pc, eng, results>>

(* Math.floor((actualRows * actualCols) * 0.08); the double product agrees *)
(* with the integer quotient for every canvas up to 11 x 11.               *)
wallsToOpen(actualRows, actualCols) == (actualRows * actualCols * 8) \div 100

(* carvePath has returned to generateMaze: set up the loop-opening pass.   *)
openLoopsBegin ==
    /\ gen.phase = "carve"
    /\ gen.call = null
    /\ gen.stack = <<>>
    /\ gen' = [gen EXCEPT !.phase = "open",
                          !.currentRandom = gen.seed,
                          !.wallsToOpen = wallsToOpen(gen.rows, gen.cols),
                          !.opened = 0,
                          !.attempts = 0]
    /\ UNCHANGED <<app, grid, start, goal, pc, eng, results>>

(* Math.floor(u * n) for some u in [0, 1).                                 *)
anyScaled(n) == IF n > 0 THEN 0 .. n - 1 ELSE n .. 0

(* The (row, col) pairs one attempt can draw, with the generator state     *)
(* left behind.                                                            *)
drawCell(random, rows, cols) ==
    IF random # undefined
    THEN LET r1 == nextRandom(random)
             r2 == nextRandom(r1)
         IN  {[row |-> 2 + scaleRandom(r1, rows - 4),
               col |-> 2 + scaleRandom(r2, cols - 4),
               random |-> r2]}
    ELSE {[row |-> 2 + i, col |-> 2 + j, random |-> undefined]
            : i \in anyScaled(rows - 4), j \in anyScaled(cols - 4)}

(* grid[row]?.[col]                                                        *)
cellAt(g, row, col) ==
    IF row \in DOMAIN g /\ col \in DOMAIN g[row] THEN g[row][col] ELSE "undefined"

(* The four look-ups grid[row - 1]?.[col] ... grid[row]?.[col + 1].         *)
neighbourLookups(row, col) ==
    {<<row - 1, col>>, <<row + 1, col>>, <<row, col - 1>>, <<row, col + 1>>}

adjacentFreeOrMissing(g, row, col) ==
    Cardinality({p \in neighbourLookups(row, col) :
                    cellAt(g, p[1], p[2]) \in {FREE, "undefined"}})

adjacentFree(g, row, col) ==
    Cardinality({p \in neighbourLookups(row, col) : cellAt(g, p[1], p[2]) = FREE})

loopConditionExtraAttempt ==
    gen.opened < gen.wallsToOpen /\ gen.attempts < gen.wallsToOpen * 5 + 1

loopCondition == gen.opened < gen.wallsToOpen /\ gen.attempts < gen.wallsToOpen * 5

openLoopAttempt ==
    /\ gen.phase = "open"
    /\ loopCondition
    /\ \E d \in drawCell(gen.currentRandom, gen.rows, gen.cols) :
          LET opens == /\ gen.grid[d.row][d.col] = WALL
                       /\ adjacentFree(gen.grid, d.row, d.col) >= 2
                       /\ adjacentFree(gen.grid, d.row, d.col) <= 3
          IN  gen' = [gen EXCEPT !.currentRandom = d.random,
                                 !.grid = IF opens THEN setCell(@, d.row, d.col, FREE) ELSE @,
                                 !.opened = IF opens THEN @ + 1 ELSE @,
                                 !.attempts = @ + 1]
    /\ UNCHANGED <<app, grid, start, goal, pc, eng, results>>

placeStartAndGoal(g, rows, cols) == setCell(setCell(g, 1, 1, START), rows - 2, cols - 2, GOAL)

generateMazeReturn ==
    /\ gen.phase = "open"
    /\ ~loopCondition
    /\ LET result == placeStartAndGoal(gen.grid, gen.rows, gen.cols)
       IN  /\ grid' = result
           /\ start' = findPositions(result).start
           /\ goal' = findPositions(result).goal
           /\ gen' = idleGen(Append(gen.calls, [op |-> "generateMaze",
                                                args |-> gen.args,
                                                grid |-> result]))
    /\ UNCHANGED <<app, pc, eng, results>>

(* handleClearMaze: the empty maze replaces the grid.                      *)
clearMaze(rows, cols) ==
    /\ mayCall("createEmptyMaze", <<rows, cols>>)
    /\ LET result == createEmptyMaze(rows, cols)
       IN  /\ grid' = result
           /\ start' = findPositions(result).start
           /\ goal' = findPositions(result).goal
           /\ gen' = idleGen(Append(gen.calls, [op |-> "createEmptyMaze",
                                                args |-> <<rows, cols>>,
                                                grid |-> result]))
    /\ UNCHANGED <<app, pc, eng, results>>

InitMaze ==
    /\ grid = null
    /\ start = null
    /\ goal = null
    /\ pc = "ready"
    /\ eng = null
    /\ results = <<>>
    /\ gen = idleGen(<<>>)
    /\ app = null

NextMaze ==
    \/ \E rows \in 3 .. MaxMazeRows, cols \in 3 .. MaxMazeCols, seed \in Seeds \cup {undefined} :
          generateMaze(rows, cols, seed)
    \/ carvePathEnter
    \/ carvePathNext
    \/ carvePathReturn
    \/ openLoopsBegin
    \/ openLoopAttempt
    \/ generateMazeReturn
    \/ \E rows \in 3 .. MaxMazeRows, cols \in 3 .. MaxMazeCols : clearMaze(rows, cols)

SpecMaze == InitMaze /\ [][NextMaze]_vars

(***************************************************************************)
(* The App component (the getCombinedState revision).                      *)
(*                                                                         *)
(* grid is the React state of that name; app holds the other state:        *)
(* cellStates, isRunning, editMode, selectedAlgorithm, results, the        *)
(* interval timers that are active with what their callbacks close over,   *)
(* and the handler that is executing (its engines run as in Spec, with     *)
(* start and goal the handler's locals and results the records returned so *)
(* far).  JavaScript runs one handler or timer callback at a time, and     *)
(* React renders between them, so every handler sees the latest state.     *)
(* setInterval returns the next handle: app.intervals counts the timers    *)
(* created so far, and at most MaxRuns runs are started.                   *)
(*                                                                         *)
(* The canvas is GridShape instead of 21 x 41.  On 3 x 5 generateMaze      *)
(* carves the one corridor (1,1) (1,2) (1,3) whatever the shuffles are,    *)
(* and its loop-opening pass finds no wall to open, so that it returns     *)
(* the grid createEmptyMaze returns.                                       *)
(***************************************************************************)
GridShape == <<3, 5>>

GRID_ROWS == GridShape[1]

GRID_COLS == GridShape[2]

MaxClicks == 1

MaxRuns == 2

UNEXPLORED == "unexplored"
EXPLORED == "explored"
PATH == "path"
DFS_EXPLORED == "dfs_explored"
BFS_EXPLORED == "bfs_explored"
ASTAR_EXPLORED == "astar_explored"
DFS_BFS_EXPLORED == "dfs_bfs_explored"
DFS_ASTAR_EXPLORED == "dfs_astar_explored"
BFS_ASTAR_EXPLORED == "bfs_astar_explored"
ALL_EXPLORED == "all_explored"

TOGGLE_WALL == "toggle_wall"
SET_START == "set_start"
SET_GOAL == "set_goal"

Algorithm == {"DFS", "BFS", "A*"}

(* No handler or engine is executing: the event loop takes the next event. *)
eventLoop == pc = "ready" /\ app.handler = "none"

(* The Settings and Edit Maze dialogs are opened by buttons that are       *)
(* disabled while isRunning.  A dialog covers the controls behind it until *)
(* it is closed, so opening it and choosing in it is one gesture.          *)
dialogGesture == ~app.isRunning

unexplored(g) == [r \in DOMAIN g |-> [c \in DOMAIN g[r] |-> UNEXPLORED]]

(* resetVisualization, on the state record: cellStates gets the            *)
(* dimensions of the grid the callback closes over.                        *)
resetVisualization(a) == [a EXCEPT !.cellStates = unexplored(grid), !.results = <<>>]

onResetVisualization ==
    /\ eventLoop
    /\ ~app.isRunning
    /\ app' = resetVisualization(app)
    /\ UNCHANGED <<grid, start, goal, pc, eng, results, gen>>

onAlgorithmSelect(algorithm) ==
    /\ eventLoop
    /\ ~app.isRunning
    /\ app' = [app EXCEPT !.selectedAlgorithm = algorithm]
    /\ UNCHANGED <<grid, start, goal, pc, eng, results, gen>>

onEditModeChange(mode) ==
    /\ eventLoop
    /\ dialogGesture
    /\ app' = [app EXCEPT !.editMode = mode]
    /\ UNCHANGED <<grid, start, goal, pc, eng, results, gen>>

(* generateMaze(GRID_ROWS, GRID_COLS) with no seed, on this canvas.        *)
generatedMazes == {createEmptyMaze(GRID_ROWS, GRID_COLS)}

handleGenerateMaze ==
    /\ eventLoop
    /\ dialogGesture
    /\ \E newGrid \in generatedMazes : grid' = newGrid
    /\ app' = resetVisualization(app)
    /\ UNCHANGED <<start, goal, pc, eng, results, gen>>

handleClearMaze ==
    /\ eventLoop
    /\ dialogGesture
    /\ grid' = createEmptyMaze(GRID_ROWS, GRID_COLS)
    /\ app' = resetVisualization(app)
    /\ UNCHANGED <<start, goal, pc, eng, results, gen>>

(* The three setGrid updaters of handleCellClick.                          *)
toggleWall(prev, row, col, currentCell) ==
    setCell(prev, row, col, IF currentCell = WALL THEN FREE ELSE WALL)

removeOld(prev, type) ==
    [i \in DOMAIN prev |-> [j \in DOMAIN prev[i] |->
        IF prev[i][j] = type THEN FREE ELSE prev[i][j]]]

setStart(prev, row, col) == setCell(removeOld(prev, START), row, col, START)

setGoal(prev, row, col) == setCell(removeOld(prev, GOAL), row, col, GOAL)

clickNeverReturnsEarly(isRunning) == FALSE

(* if (isRunning) return;  The Grid passes the click on under the same     *)
(* condition.                                                              *)
clickReturnsEarly(isRunning) == isRunning

handleCellClick(row, col) ==
    /\ eventLoop
    /\ ~clickReturnsEarly(app.isRunning)
    /\ app.clicks < MaxClicks
    /\ LET currentCell == grid[row][col]
       IN  grid' = CASE app.editMode = TOGGLE_WALL ->
                          IF currentCell # START /\ currentCell # GOAL
                          THEN toggleWall(grid, row, col, currentCell)
                          ELSE grid
                     [] app.editMode = SET_START -> setStart(grid, row, col)
                     [] app.editMode = SET_GOAL -> setGoal(grid, row, col)
    /\ app' = [resetVisualization(app) EXCEPT !.clicks = @ + 1]
    /\ UNCHANGED <<start, goal, pc, eng, results, gen>>

(***************************************************************************)
(* Starting a run.  The Run and Compare All buttons are disabled while     *)
(* isRunning.  A handler that passes the position check sets isRunning,    *)
(* resets the visualization and calls its engines (app.plan); when they    *)
(* have returned it creates the replay timer.                              *)
(***************************************************************************)
runNeverDisabled(isRunning) == FALSE

runDisabled(isRunning) == isRunning

notFoundStart(positions) == positions.start = null

(* !start || !goal                                                         *)
notFound(positions) == positions.start = null \/ positions.goal = null

beginRun(handler, plan) ==
    LET positions == findPositions(grid)
    IN  IF notFound(positions)
        THEN /\ app' = [app EXCEPT !.alerted = TRUE]
             /\ UNCHANGED <<grid, start, goal, pc, eng, results, gen>>
        ELSE /\ start' = positions.start
             /\ goal' = positions.goal
             /\ app' = [resetVisualization(app) EXCEPT !.isRunning = TRUE,
                                                       !.handler = handler,
                                                       !.plan = plan]
             /\ UNCHANGED <<grid, pc, eng, results, gen>>

runAlgorithm ==
    /\ eventLoop
    /\ app.selectedAlgorithm \in Algorithm
    /\ ~runDisabled(app.isRunning)
    /\ app.intervals < MaxRuns
    /\ beginRun("runAlgorithm", <<app.selectedAlgorithm>>)

runComparison ==
    /\ eventLoop
    /\ ~runDisabled(app.isRunning)
    /\ app.intervals < MaxRuns
    /\ beginRun("runComparison", <<"DFS", "BFS", "A*">>)

(* The engines of the plan have all returned.                              *)
enginesReturned ==
    /\ pc = "ready"
    /\ app.plan # <<>>
    /\ DOMAIN results = {app.plan[j] : j \in 1 .. Len(app.plan)}

setInterval(timer) ==
    /\ app' = [app EXCEPT !.timers = Append(@, timer),
                          !.intervals = @ + 1,
                          !.handler = "none",
                          !.plan = <<>>]
    /\ start' = null
    /\ goal' = null
    /\ results' = <<>>
    /\ UNCHANGED <<grid, pc, eng, gen>>

(* animateAlgorithm up to setInterval: step = 0.                           *)
animateAlgorithm ==
    /\ app.handler = "runAlgorithm"
    /\ enginesReturned
    /\ setInterval([kind |-> "animateAlgorithm",
                    intervalId |-> app.intervals + 1,
                    grid |-> grid,
                    result |-> results[app.selectedAlgorithm],
                    step |-> 0])

Max(a, b) == IF a > b THEN a ELSE b

(* runComparison from the engines' return to setInterval.                  *)
replayComparison ==
    /\ app.handler = "runComparison"
    /\ enginesReturned
    /\ setInterval([kind |-> "runComparison",
                    intervalId |-> app.intervals + 1,
                    grid |-> grid,
                    goal |-> goal,
                    dfsResult |-> results["DFS"],
                    bfsResult |-> results["BFS"],
                    astarResult |-> results["A*"],
                    exploredBy |-> <<>>,
                    goalReachedStep |-> <<>>,
                    maxExplorationSteps |->
                        Max(Max(Len(results["DFS"].explorationOrder),
                                Len(results["BFS"].explorationOrder)),
                            Len(results["A*"].explorationOrder)),
                    step |-> 0])

clearIntervalNever(timers, i) == timers

clearInterval(timers, i) == SubSeq(timers, 1, i - 1) \o SubSeq(timers, i + 1, Len(timers))

showPathOverMarkers(prev, path, g) ==
    [r \in DOMAIN prev |-> [c \in DOMAIN prev[r] |->
        IF \E k \in 1 .. Len(path) : path[k] = <<r, c>>
        THEN PATH ELSE prev[r][c]]]

(* The final-path updater of both replays.                                 *)
showPath(prev, path, g) ==
    [r \in DOMAIN prev |-> [c \in DOMAIN prev[r] |->
        IF /\ \E k \in 1 .. Len(path) : path[k] = <<r, c>>
           /\ g[r][c] # START
           /\ g[r][c] # GOAL
        THEN PATH ELSE prev[r][c]]]

(* One callback of animateAlgorithm's interval; when it resolves the       *)
(* promise, runAlgorithm resumes and stores the result.                    *)
animateAlgorithmTick(i) ==
    /\ eventLoop
    /\ i \in 1 .. Len(app.timers)
    /\ app.timers[i].kind = "animateAlgorithm"
    /\ LET timer == app.timers[i]
           explorationOrder == timer.result.explorationOrder
           path == timer.result.path
       IN  IF timer.step < Len(explorationOrder)
           THEN LET pos == explorationOrder[timer.step + 1]
                IN  app' = [app EXCEPT !.cellStates[pos[1]][pos[2]] = EXPLORED,
                                       !.timers[i].step = @ + 1]
           ELSE app' = [app EXCEPT !.cellStates =
                                        IF timer.step = Len(explorationOrder) /\ Len(path) > 0
                                        THEN showPath(@, path, timer.grid) ELSE @,
                                   !.timers = clearInterval(@, i),
                                   !.results = <<timer.result>>,
                                   !.isRunning = FALSE]
    /\ UNCHANGED <<grid, start, goal, pc, eng, results, gen>>

getCombinedStatePairsFirst(algorithms) ==
    LET hasDfs == "dfs" \in algorithms
        hasBfs == "bfs" \in algorithms
        hasAstar == "astar" \in algorithms
    IN  IF hasDfs /\ hasBfs THEN DFS_BFS_EXPLORED
        ELSE IF hasDfs /\ hasBfs /\ hasAstar THEN ALL_EXPLORED
        ELSE IF hasDfs /\ hasAstar THEN DFS_ASTAR_EXPLORED
        ELSE IF hasBfs /\ hasAstar THEN BFS_ASTAR_EXPLORED
        ELSE IF hasDfs THEN DFS_EXPLORED
        ELSE IF hasBfs THEN BFS_EXPLORED
        ELSE IF hasAstar THEN ASTAR_EXPLORED
        ELSE UNEXPLORED

getCombinedState(algorithms) ==
    LET hasDfs == "dfs" \in algorithms
        hasBfs == "bfs" \in algorithms
        hasAstar == "astar" \in algorithms
    IN  IF hasDfs /\ hasBfs /\ hasAstar THEN ALL_EXPLORED
        ELSE IF hasDfs /\ hasBfs THEN DFS_BFS_EXPLORED
        ELSE IF hasDfs /\ hasAstar THEN DFS_ASTAR_EXPLORED
        ELSE IF hasBfs /\ hasAstar THEN BFS_ASTAR_EXPLORED
        ELSE IF hasDfs THEN DFS_EXPLORED
        ELSE IF hasBfs THEN BFS_EXPLORED
        ELSE IF hasAstar THEN ASTAR_EXPLORED
        ELSE UNEXPLORED

addOwnerAlone(owners, algorithm) == {algorithm}

(* exploredBy.get(key)!.add(algorithm)                                     *)
addOwner(owners, algorithm) == owners \cup {algorithm}

recordArrivalAfter(goalReachedStep, name, step) ==
    IF name \notin DOMAIN goalReachedStep \/ goalReachedStep[name] = 0
    THEN (name :> step + 1) @@ goalReachedStep
    ELSE goalReachedStep

(* if (!goalReachedStep[name]) goalReachedStep[name] = step;  the test     *)
(* passes when the entry is missing and when it is 0.                      *)
recordArrival(goalReachedStep, name, step) ==
    IF name \notin DOMAIN goalReachedStep \/ goalReachedStep[name] = 0
    THEN (name :> step) @@ goalReachedStep
    ELSE goalReachedStep

(* One of the three "Track" blocks of a comparison tick.                   *)
track(timer, result, algorithm, name) ==
    IF timer.step < Len(result.explorationOrder)
    THEN LET pos == result.explorationOrder[timer.step + 1]
             owners == IF pos \in DOMAIN timer.exploredBy
                       THEN timer.exploredBy[pos] ELSE {}
         IN  [timer EXCEPT !.exploredBy = (pos :> addOwner(owners, algorithm)) @@ @,
                           !.goalReachedStep = IF pos = timer.goal
                                               THEN recordArrival(@, name, timer.step)
                                               ELSE @]
    ELSE timer

(* The updater that follows the three blocks: every position of exploredBy *)
(* that is not the Start or Goal cell gets its combined state.             *)
combinedStates(prev, exploredBy, g) ==
    [r \in DOMAIN prev |-> [c \in DOMAIN prev[r] |->
        IF <<r, c>> \in DOMAIN exploredBy /\ g[r][c] # START /\ g[r][c] # GOAL
        THEN getCombinedState(exploredBy[<<r, c>>])
        ELSE prev[r][c]]]

(* goalReachedStep[result.algorithmName] ?? result.explorationOrder.length *)
updatedResult(result, goalReachedStep) ==
    [algorithmName |-> result.algorithmName, found |-> result.found,
     path |-> result.path, explorationOrder |-> result.explorationOrder,
     nodesExpanded |-> result.nodesExpanded, pathLength |-> result.pathLength,
     isOptimal |-> result.isOptimal,
     stepsToGoal |-> IF result.algorithmName \in DOMAIN goalReachedStep
                     THEN goalReachedStep[result.algorithmName]
                     ELSE Len(result.explorationOrder)]

(* One callback of runComparison's interval.                               *)
comparisonTick(i) ==
    /\ eventLoop
    /\ i \in 1 .. Len(app.timers)
    /\ app.timers[i].kind = "runComparison"
    /\ \E timer \in {app.timers[i]} :
          IF timer.step < timer.maxExplorationSteps
          THEN \E tracked \in {track(track(track(timer, timer.dfsResult, "dfs", "DFS"),
                                           timer.bfsResult, "bfs", "BFS"),
                                     timer.astarResult, "astar", "A*")} :
                  app' = [app EXCEPT !.cellStates =
                                         combinedStates(@, tracked.exploredBy, timer.grid),
                                     !.timers[i] = [tracked EXCEPT !.step = @ + 1]]
          ELSE app' = [app EXCEPT !.cellStates =
                                       IF Len(timer.astarResult.path) > 0
                                       THEN showPath(@, timer.astarResult.path, timer.grid)
                                       ELSE @,
                                  !.timers = clearInterval(@, i),
                                  !.results =
                                      <<updatedResult(timer.dfsResult, timer.goalReachedStep),
                                        updatedResult(timer.bfsResult, timer.goalReachedStep),
                                        updatedResult(timer.astarResult, timer.goalReachedStep)>>,
                                  !.isRunning = FALSE]
    /\ UNCHANGED <<grid, start, goal, pc, eng, results, gen>>

(* The state after construction: the generated maze, nothing run yet.      *)
InitApp ==
    /\ grid \in generatedMazes
    /\ start = null
    /\ goal = null
    /\ pc = "ready"
    /\ eng = null
    /\ results = <<>>
    /\ gen = null
    /\ app = [cellStates |-> unexplored(grid),
              selectedAlgorithm |-> "null",
              isRunning |-> FALSE,
              editMode |-> TOGGLE_WALL,
              results |-> <<>>,
              timers |-> <<>>,
              intervals |-> 0,
              handler |-> "none",
              plan |-> <<>>,
              alerted |-> FALSE,
              clicks |-> 0]

NextApp ==
    \/ \E algorithm \in Algorithm : onAlgorithmSelect(algorithm)
    \/ \E mode \in {TOGGLE_WALL, SET_START, SET_GOAL} : onEditModeChange(mode)
    \/ \E row \in 0 .. GRID_ROWS - 1, col \in 0 .. GRID_COLS - 1 : handleCellClick(row, col)
    \/ onResetVisualization
    \/ handleGenerateMaze
    \/ handleClearMaze
    \/ runAlgorithm
    \/ runComparison
    \/ executeDFS \/ DFSIteration \/ DFSNoPath
    \/ executeBFS \/ BFSIteration \/ BFSNoPath
    \/ executeAStar \/ AStarIteration \/ AStarNoPath
    \/ reconstructPathStep \/ reconstructPathReturn
    \/ animateAlgorithm
    \/ replayComparison
    \/ \E i \in 1 .. Len(app.timers) : animateAlgorithmTick(i)
    \/ \E i \in 1 .. Len(app.timers) : comparisonTick(i)

SpecApp == InitApp /\ [][NextApp]_vars

(* A run handler executes its engines synchronously up to setInterval, and *)
(* an interval timer that is not cleared keeps firing: the steps of a run  *)
(* are taken as long as they are possible.                                 *)
runStep ==
    \/ executeDFS \/ DFSIteration \/ DFSNoPath
    \/ executeBFS \/ BFSIteration \/ BFSNoPath
    \/ executeAStar \/ AStarIteration \/ AStarNoPath
    \/ reconstructPathStep \/ reconstructPathReturn
    \/ animateAlgorithm
    \/ replayComparison
    \/ \E i \in 1 .. Len(app.timers) : animateAlgorithmTick(i)
    \/ \E i \in 1 .. Len(app.timers) : comparisonTick(i)

LiveSpecApp == InitApp /\ [][NextApp]_vars /\ WF_vars(runStep)

(***************************************************************************)
(* The revision of the App with one generic blended state                  *)
(* (src/src/App.tsx).  Its handlers are those above except the replay of   *)
(* runComparison: each of its three blocks records the owner and writes    *)
(* the cell state itself, inside the setCellStates updater.                *)
(*                                                                         *)
(* The canvas is BlendShape: generateMaze(5, 5, 12345) returns the empty   *)
(* maze with a wall at (2,1), a maze with a loop.                          *)
(***************************************************************************)
BlendShape == <<5, 5>>

seededMazes == {setCell(createEmptyMaze(BlendShape[1], BlendShape[2]), 2, 1, WALL)}

(* One "Update ... exploration" block: st = [exploredBy, newStates].  The  *)
(* DFS block has no else branch (blends = FALSE).                          *)
updateExploration(st, timer, result, algorithm, ownState, blends) ==
    IF timer.step < Len(result.explorationOrder)
    THEN LET pos == result.explorationOrder[timer.step + 1]
             owners == addOwner(IF pos \in DOMAIN st.exploredBy
                                THEN st.exploredBy[pos] ELSE {}, algorithm)
         IN  IF timer.grid[pos[1]][pos[2]] # START /\ timer.grid[pos[1]][pos[2]] # GOAL
             THEN [exploredBy |-> (pos :> owners) @@ st.exploredBy,
                   newStates |->
                       IF Cardinality(owners) = 1
                       THEN [st.newStates EXCEPT ![pos[1]][pos[2]] = ownState]
                       ELSE IF blends
                       THEN [st.newStates EXCEPT ![pos[1]][pos[2]] = EXPLORED]
                       ELSE st.newStates]
             ELSE st
    ELSE st

(* runComparison from the engines' return up to setInterval: step = 0.     *)
replayBlended ==
    /\ app.handler = "runComparison"
    /\ enginesReturned
    /\ setInterval([kind |-> "runComparisonBlended",
                    intervalId |-> app.intervals + 1,
                    grid |-> grid,
                    dfsResult |-> results["DFS"],
                    bfsResult |-> results["BFS"],
                    astarResult |-> results["A*"],
                    exploredBy |-> <<>>,
                    maxExplorationSteps |->
                        Max(Max(Len(results["DFS"].explorationOrder),
                                Len(results["BFS"].explorationOrder)),
                            Len(results["A*"].explorationOrder)),
                    step |-> 0])

(* One callback of the interval of this runComparison.                     *)
blendedTick(i) ==
    /\ eventLoop
    /\ i \in 1 .. Len(app.timers)
    /\ app.timers[i].kind = "runComparisonBlended"
    /\ \E timer \in {app.timers[i]} :
          IF timer.step < timer.maxExplorationSteps
          THEN \E st \in {updateExploration(
                             updateExploration(
                                updateExploration(
                                   [exploredBy |-> timer.exploredBy,
                                    newStates |-> app.cellStates],
                                   timer, timer.dfsResult, "dfs", DFS_EXPLORED, FALSE),
                                timer, timer.bfsResult, "bfs", BFS_EXPLORED, TRUE),
                             timer, timer.astarResult, "astar", ASTAR_EXPLORED, TRUE)} :
                  app' = [app EXCEPT !.cellStates = st.newStates,
                                     !.timers[i] = [timer EXCEPT !.exploredBy = st.exploredBy,
                                                                 !.step = @ + 1]]
          ELSE app' = [app EXCEPT !.cellStates =
                                       IF Len(timer.astarResult.path) > 0
                                       THEN showPath(@, timer.astarResult.path, timer.grid)
                                       ELSE @,
                                  !.timers = clearInterval(@, i),
                                  !.results = <<timer.dfsResult, timer.bfsResult,
                                                timer.astarResult>>,
                                  !.isRunning = FALSE]
    /\ UNCHANGED <<grid, start, goal, pc, eng, results, gen>>

InitAppBlended ==
    /\ grid \in seededMazes
    /\ start = null
    /\ goal = null
    /\ pc = "ready"
    /\ eng = null
    /\ results = <<>>
    /\ gen = null
    /\ app = [cellStates |-> unexplored(grid),
              selectedAlgorithm |-> "null",
              isRunning |-> FALSE,
              editMode |-> TOGGLE_WALL,
              results |-> <<>>,
              timers |-> <<>>,
              intervals |-> 0,
              handler |-> "none",
              plan |-> <<>>,
              alerted |-> FALSE,
              clicks |-> 0]

NextAppBlended ==
    \/ \E mode \in {TOGGLE_WALL, SET_START, SET_GOAL} : onEditModeChange(mode)
    \/ \E row \in 0 .. BlendShape[1] - 1, col \in 0 .. BlendShape[2] - 1 :
          handleCellClick(row, col)
    \/ runComparison
    \/ executeDFS \/ DFSIteration \/ DFSNoPath
    \/ executeBFS \/ BFSIteration \/ BFSNoPath
    \/ executeAStar \/ AStarIteration \/ AStarNoPath
    \/ reconstructPathStep \/ reconstructPathReturn
    \/ replayBlended
    \/ \E i \in 1 .. Len(app.timers) : blendedTick(i)

SpecAppBlended == InitAppBlended /\ [][NextAppBlended]_vars

(***************************************************************************)
(* Reference notions the properties are stated against: 4-adjacency, and   *)
(* the shortest-path length computed by expanding whole distance layers.   *)
(***************************************************************************)
Engines == {"DFS", "BFS", "A*", "Weighted A*", "IDA*"}

AllDone == DOMAIN results = Engines

(* An engine has just returned: results only changes on a return, so a     *)
(* property of the result records need only be read in these states.       *)
Returned == pc = "ready" /\ DOMAIN results # {}

Adjacent(p, q) == \/ p[1] = q[1] /\ Abs(p[2] - q[2]) = 1
                  \/ p[2] = q[2] /\ Abs(p[1] - q[1]) = 1

Passable(g) == {p \in Cells(g) : g[p[1]][p[2]] # WALL}

RECURSIVE LayerDistance(_, _, _, _, _)
LayerDistance(g, seen, frontier, d, target) ==
    IF target \in frontier THEN d
    ELSE IF frontier = {} THEN -1
    ELSE LET next == {q \in Passable(g) \ seen : \E p \in frontier : Adjacent(p, q)}
         IN  LayerDistance(g, seen \cup next, next, d + 1, target)

ShortestLength == LayerDistance(grid, {start}, {start}, 0, goal)

Reachable == ShortestLength >= 0

NoDuplicates(seq) == \A i, j \in 1 .. Len(seq) : i # j => seq[i] # seq[j]

(***************************************************************************)
(* C1: for each of the five engines, a result with found = TRUE has a path *)
(* that begins at start, ends at goal, moves between 4-adjacent cells and  *)
(* stays on in-bounds cells that are not WALL.                             *)
(***************************************************************************)
ValidPath(r) ==
    /\ Len(r.path) >= 1
    /\ r.path[1] = start
    /\ r.path[Len(r.path)] = goal
    /\ \A i \in 1 .. Len(r.path) - 1 : Adjacent(r.path[i], r.path[i + 1])
    /\ \A i \in 1 .. Len(r.path) : r.path[i] \in Passable(grid)

C1_FoundPathIsValid ==
    Returned => \A n \in DOMAIN results : results[n].found => ValidPath(results[n])

C1_Witness ==
    /\ AllDone
    /\ \A n \in Engines : results[n].found /\ Len(results[n].path) >= 5

(***************************************************************************)
(* C2: on a grid whose goal is reachable, BFS, A* and IDA* return the same *)
(* pathLength, the length of a shortest 4-connected path.                  *)
(***************************************************************************)
C2_OptimalEnginesAgree ==
    (Returned /\ {"BFS", "A*", "IDA*"} \subseteq DOMAIN results /\ Reachable) =>
        /\ results["BFS"].pathLength = ShortestLength
        /\ results["A*"].pathLength = ShortestLength
        /\ results["IDA*"].pathLength = ShortestLength

C2_Witness ==
    /\ AllDone
    /\ Reachable
    /\ ShortestLength > manhattanDistance(start, goal)
    /\ results["DFS"].pathLength > ShortestLength
    /\ results["A*"].pathLength = ShortestLength

(***************************************************************************)
(* C3: on a grid whose goal is reachable, the pathLength of Weighted A* is *)
(* at most WEIGHT = 2 times the shortest path length.                      *)
(***************************************************************************)
C3_WeightedWithinTwice ==
    (Returned /\ "Weighted A*" \in DOMAIN results /\ Reachable) =>
        results["Weighted A*"].pathLength <= 2 * ShortestLength

C3_Witness ==
    /\ "Weighted A*" \in DOMAIN results
    /\ Reachable
    /\ results["Weighted A*"].pathLength > ShortestLength

(***************************************************************************)
(* C4: each engine returns found = TRUE exactly when the goal is reachable *)
(* from the start through non-WALL cells, and a result with found = FALSE  *)
(* has an empty path and pathLength 0.                                     *)
(***************************************************************************)
C4_FoundIffReachable ==
    Returned =>
        \A n \in DOMAIN results :
            /\ results[n].found <=> Reachable
            /\ ~results[n].found => results[n].path = <<>> /\ results[n].pathLength = 0

C4_Witness ==
    /\ AllDone
    /\ ~Reachable
    /\ \A n \in Engines : ~results[n].found
    /\ results["BFS"].nodesExpanded > 1

(***************************************************************************)
(* C5: the results of DFS, BFS, A* and Weighted A* have nodesExpanded      *)
(* equal to the length of explorationOrder, and no position occurs twice   *)
(* in explorationOrder.                                                    *)
(***************************************************************************)
C5_ExpandedOnce ==
    Returned =>
        \A n \in DOMAIN results \cap {"DFS", "BFS", "A*", "Weighted A*"} :
            /\ results[n].nodesExpanded = Len(results[n].explorationOrder)
            /\ NoDuplicates(results[n].explorationOrder)

C5_Witness ==
    /\ {"DFS", "BFS", "A*", "Weighted A*"} \subseteq DOMAIN results
    /\ \A n \in {"DFS", "BFS", "A*", "Weighted A*"} : results[n].nodesExpanded >= 6

C7_AllEnginesTerminate == <>AllDone

C7_Witness ==
    /\ AllDone
    /\ results["A*"].found
    /\ results["IDA*"].nodesExpanded > results["BFS"].nodesExpanded


(***************************************************************************)
(* C8: generateMaze is deterministic in its arguments when a seed is       *)
(* supplied: two invocations with identical (rows, cols, seed) return      *)
(* grids that are equal cell for cell.                                     *)
(***************************************************************************)
SeededCall(call) == call.op = "generateMaze" /\ call.args[3] # undefined

C8_SeededMazeDeterministic ==
    \A i, j \in DOMAIN gen.calls :
        (SeededCall(gen.calls[i]) /\ SeededCall(gen.calls[j])
            /\ gen.calls[i].args = gen.calls[j].args)
        => gen.calls[i].grid = gen.calls[j].grid

C8_Witness ==
    /\ Len(gen.calls) = 2
    /\ SeededCall(gen.calls[1])
    /\ SeededCall(gen.calls[2])
    /\ gen.calls[1].args = gen.calls[2].args
    /\ Rows(gen.calls[2].grid) = 5
    /\ Cols(gen.calls[2].grid) = 5
    /\ gen.calls[2].grid[2][2] = FREE

(***************************************************************************)
(* C9: when carvePath has returned to generateMaze, before the             *)
(* loop-opening pass, whatever orderings the shuffles produced, every pair *)
(* of Free cells is joined by exactly one simple 4-connected path through  *)
(* Free cells, and every room cell (odd row, odd column) is Free.          *)
(***************************************************************************)
FreeCells(g) == {p \in Cells(g) : g[p[1]][p[2]] = FREE}

RoomCells(g) == {p \in Cells(g) : p[1] % 2 = 1 /\ p[2] % 2 = 1}

RECURSIVE SimplePaths(_, _, _, _), SimplePathsVia(_, _, _, _)
SimplePaths(F, p, q, seen) ==
    IF p = q THEN 1
    ELSE SimplePathsVia(F, {n \in F \ seen : Adjacent(p, n)}, q, seen)

SimplePathsVia(F, ns, q, seen) ==
    IF ns = {} THEN 0
    ELSE LET n == CHOOSE x \in ns : TRUE
         IN  SimplePaths(F, n, q, seen \cup {n}) + SimplePathsVia(F, ns \ {n}, q, seen)

CarvingDone == gen.phase = "carve" /\ gen.call = null /\ gen.stack = <<>>

C9_CarvedMazeIsTree ==
    CarvingDone =>
        /\ \A p, q \in FreeCells(gen.grid) : SimplePaths(FreeCells(gen.grid), p, q, {p}) = 1
        /\ RoomCells(gen.grid) \subseteq FreeCells(gen.grid)

C9_Witness ==
    /\ CarvingDone
    /\ gen.seed = undefined
    /\ gen.rows = 5
    /\ gen.cols = 5
    /\ gen.grid[2][1] = WALL
    /\ Cardinality(FreeCells(gen.grid)) = 7

(***************************************************************************)
(* C10 as stated: for all rows >= 3 and cols >= 3, the grid returned by    *)
(* generateMaze and by createEmptyMaze has exactly one Start cell, at      *)
(* (1,1), and exactly one Goal cell, at (R-2, C-2), R and C being the      *)
(* dimensions of the returned grid.                                        *)
(***************************************************************************)
CellsOfType(g, type) == {p \in Cells(g) : g[p[1]][p[2]] = type}

C10_OneStartOneGoal ==
    \A i \in DOMAIN gen.calls :
        LET g == gen.calls[i].grid
        IN  /\ CellsOfType(g, START) = {<<1, 1>>}
            /\ CellsOfType(g, GOAL) = {<<Rows(g) - 2, Cols(g) - 2>>}

(***************************************************************************)
(* C11 as stated: starting from a grid with exactly one Start and exactly  *)
(* one Goal, any sequence of maze-editing clicks (toggle wall, set start,  *)
(* set goal) on any cells, a set-start click on the Goal cell and a        *)
(* set-goal click on the Start cell included, leaves the grid with exactly *)
(* one Start and exactly one Goal.                                         *)
(***************************************************************************)
C11_EditsKeepOneStartOneGoal ==
    /\ Cardinality(CellsOfType(grid, START)) = 1
    /\ Cardinality(CellsOfType(grid, GOAL)) = 1

(***************************************************************************)
(* C12: during a comparison replay the ownership map only grows: an       *)
(* algorithm that is in exploredBy[p] after one tick is in exploredBy[p]   *)
(* after every later tick of the same run.  Stated over single steps: a    *)
(* step that keeps the replay's timer keeps every owner of every position. *)
(***************************************************************************)
Replaying == Len(app.timers) > 0 /\ app.timers[1].kind = "runComparison"

C12_OwnershipOnlyGrows ==
    [][(Replaying /\ Replaying') =>
          \A p \in DOMAIN app.timers[1].exploredBy :
              /\ p \in DOMAIN app'.timers[1].exploredBy
              /\ app.timers[1].exploredBy[p] \subseteq app'.timers[1].exploredBy[p]]_vars

(* All ticks of a replay are done; one position is owned by the three      *)
(* algorithms, A* having entered it at an earlier tick than DFS, and       *)
(* another position is owned by DFS and BFS only.                          *)
C12_Witness ==
    /\ Replaying
    /\ app.timers[1].step = app.timers[1].maxExplorationSteps
    /\ \E p \in DOMAIN app.timers[1].exploredBy :
          /\ app.timers[1].exploredBy[p] = {"dfs", "bfs", "astar"}
          /\ \E i, k \in 1 .. app.timers[1].maxExplorationSteps :
                /\ k < i
                /\ i <= Len(app.timers[1].dfsResult.explorationOrder)
                /\ k <= Len(app.timers[1].astarResult.explorationOrder)
                /\ app.timers[1].dfsResult.explorationOrder[i] = p
                /\ app.timers[1].astarResult.explorationOrder[k] = p
    /\ \E q \in DOMAIN app.timers[1].exploredBy : app.timers[1].exploredBy[q] = {"dfs", "bfs"}

(***************************************************************************)
(* C13: in a comparison replay, for each algorithm the arrival step        *)
(* goalReachedStep is written at the first tick t at which the algorithm's *)
(* explorationOrder[t] is the goal, has the value t and is never           *)
(* overwritten by a later tick; an algorithm whose explorationOrder never  *)
(* contains the goal never gets an arrival step.  As a state predicate:    *)
(* after any number of ticks, the entry of each algorithm is the first     *)
(* tick processed so far at which its order held the goal, and is missing  *)
(* when there is no such tick; and the stepsToGoal stored when the run     *)
(* ends is that step, or the length of the order when there is none.       *)
(***************************************************************************)
goalTicks(explorationOrder, goal_, processed) ==
    {t \in 0 .. processed - 1 : t < Len(explorationOrder) /\ explorationOrder[t + 1] = goal_}

firstTick(ticks) == CHOOSE t \in ticks : \A u \in ticks : t <= u

ArrivalRecorded(goalReachedStep, name, ticks) ==
    IF ticks = {}
    THEN name \notin DOMAIN goalReachedStep
    ELSE name \in DOMAIN goalReachedStep /\ goalReachedStep[name] = firstTick(ticks)

C13_ArrivalStepIsFirstGoalTick ==
    /\ Replaying =>
          \E timer \in {app.timers[1]} :
             \A result \in {timer.dfsResult, timer.bfsResult, timer.astarResult} :
                ArrivalRecorded(timer.goalReachedStep, result.algorithmName,
                                goalTicks(result.explorationOrder, timer.goal, timer.step))
    /\ Len(app.results) = 3 =>
          \A k \in 1 .. 3 :
             \E result \in {app.results[k]} :
             \E ticks \in {goalTicks(result.explorationOrder, findPositions(grid).goal,
                                     Len(result.explorationOrder))} :
                result.stepsToGoal = IF ticks = {} THEN Len(result.explorationOrder)
                                     ELSE firstTick(ticks)

(* A replay in which A* reached the goal at an earlier tick than DFS, a    *)
(* tick has been processed after A*'s arrival, and all three arrivals are  *)
(* recorded.                                                               *)
C13_Witness ==
    /\ Replaying
    /\ DOMAIN app.timers[1].goalReachedStep = {"DFS", "BFS", "A*"}
    /\ app.timers[1].goalReachedStep["A*"] < app.timers[1].goalReachedStep["DFS"]
    /\ app.timers[1].goalReachedStep["A*"] + 1 < app.timers[1].step

(***************************************************************************)
(* C14: in the comparison replay, after every exploration tick t the       *)
(* visual state of every cell that is neither Start nor Goal is the fixed  *)
(* combination table applied to the cell's full ownership set, the three   *)
(* algorithms' contributions of tick t included: no owner UNEXPLORED, one  *)
(* owner that owner's state, each pair that pair's state, all three        *)
(* ALL_EXPLORED; no state reflects only part of a tick.                    *)
(***************************************************************************)
CombinationTable ==
    [owners \in SUBSET {"dfs", "bfs", "astar"} |->
        CASE owners = {} -> UNEXPLORED
          [] owners = {"dfs"} -> DFS_EXPLORED
          [] owners = {"bfs"} -> BFS_EXPLORED
          [] owners = {"astar"} -> ASTAR_EXPLORED
          [] owners = {"dfs", "bfs"} -> DFS_BFS_EXPLORED
          [] owners = {"dfs", "astar"} -> DFS_ASTAR_EXPLORED
          [] owners = {"bfs", "astar"} -> BFS_ASTAR_EXPLORED
          [] owners = {"dfs", "bfs", "astar"} -> ALL_EXPLORED]

(* The algorithms that explored position p in ticks 0 .. processed - 1.    *)
OwnersAfter(timer, p, processed) ==
    {a \in {"dfs", "bfs", "astar"} :
        \E result \in {CASE a = "dfs" -> timer.dfsResult
                         [] a = "bfs" -> timer.bfsResult
                         [] a = "astar" -> timer.astarResult} :
            goalTicks(result.explorationOrder, p, processed) # {}}

StatesShown == {app.cellStates[p[1]][p[2]] : p \in Cells(grid)}

ComparisonRunning == app.handler = "runComparison" \/ Replaying

MarkerCells(g) == CellsOfType(g, START) \cup CellsOfType(g, GOAL)

PathCells == {p \in Cells(grid) : app.cellStates[p[1]][p[2]] = PATH}

RunBegins == app.handler = "none" /\ app'.handler # "none"

C16_AtMostOneReplayTimer ==
    [][/\ Len(app'.timers) <= 1
       /\ RunBegins => app.timers = <<>>]_vars

(* The timer of a second run is ticking, alone: the first run's timer was  *)
(* cleared before the second run began.                                    *)
C16_Witness ==
    /\ Len(app.timers) = 1
    /\ app.timers[1].intervalId = 2
    /\ app.timers[1].step > 0

(***************************************************************************)
(* C17: while a replay is active (isRunning is true) every mutating action *)
(* (a cell click in any edit mode, reset visualization, generate new maze, *)
(* clear maze) is rejected: the grid is not changed, and cellStates is     *)
(* changed only by a tick of the replay's timer, until the run completes.  *)
(***************************************************************************)
TimerTicks ==
    /\ Len(app.timers) = 1
    /\ \/ app'.timers = <<>>
       \/ /\ Len(app'.timers) = 1
          /\ app'.timers[1].intervalId = app.timers[1].intervalId
          /\ app'.timers[1].step = app.timers[1].step + 1

C17_OnlyTicksWriteWhileRunning ==
    [][app.isRunning =>
          /\ grid' = grid
          /\ app'.cellStates # app.cellStates => TimerTicks
          /\ app'.results # app.results => TimerTicks /\ app'.timers = <<>>]_vars

(* A replay is under way in SET_START mode with clicks still to spend: the *)
(* click that would move the Start is held off by isRunning alone.         *)
C17_Witness ==
    /\ app.isRunning
    /\ Len(app.timers) = 1
    /\ app.timers[1].step > 1
    /\ app.editMode = SET_START
    /\ app.clicks < MaxClicks
    /\ PathCells = {}
    /\ StatesShown # {UNEXPLORED}

(***************************************************************************)
(* C18: if the grid holds no Start cell or no Goal cell when run-single or *)
(* run-comparison is triggered, the run is not started: no search engine   *)
(* is invoked, no timer is created, isRunning stays false, and cellStates  *)
(* and results are left unchanged.                                         *)
(***************************************************************************)
MarkerMissing == CellsOfType(grid, START) = {} \/ CellsOfType(grid, GOAL) = {}

C18_NoRunWithoutMarkers ==
    [][(MarkerMissing /\ (runAlgorithm \/ runComparison)) =>
          /\ ~app'.isRunning
          /\ app'.timers = app.timers
          /\ app'.intervals = app.intervals
          /\ app'.cellStates = app.cellStates
          /\ app'.results = app.results
          /\ app'.handler = "none"
          /\ app'.plan = <<>>
          /\ pc' = "ready"
          /\ eng' = eng
          /\ results' = results]_vars

(* The notice has been shown on a grid whose Goal a set-start click        *)
(* removed; nothing is running and no timer has ever been created.         *)
C18_Witness ==
    /\ app.alerted
    /\ CellsOfType(grid, GOAL) = {}
    /\ CellsOfType(grid, START) # {}
    /\ app.selectedAlgorithm \in Algorithm
    /\ ~app.isRunning
    /\ app.timers = <<>>
    /\ app.intervals = 0

(***************************************************************************)
(* C19: on every grid (the specification's case is the 5 x 5 open grid     *)
(* with Start (1,1) and Goal (3,3), whose interior is the open 3 x 3 grid  *)
(* with the markers in opposite corners), the nodesExpanded of             *)
(* executeAStar is less than or equal to the nodesExpanded of executeBFS   *)
(* on the same grid, start and goal.                                       *)
(***************************************************************************)
C19_AStarExpandsNoMoreThanBFS ==
    (Returned /\ {"BFS", "A*"} \subseteq DOMAIN results) =>
        results["A*"].nodesExpanded <= results["BFS"].nodesExpanded

(* The open 3 x 3 grid, Start and Goal in opposite corners: both engines   *)
(* return a path of length 4, BFS after expanding all nine cells, A* after *)
(* expanding five.                                                         *)
C19_Witness ==
    /\ Returned
    /\ {"BFS", "A*"} \subseteq DOMAIN results
    /\ Rows(grid) = 3
    /\ Cols(grid) = 3
    /\ CellsOfType(grid, WALL) = {}
    /\ start = <<0, 0>>
    /\ goal = <<2, 2>>
    /\ results["BFS"].pathLength = 4
    /\ results["A*"].pathLength = 4
    /\ results["BFS"].nodesExpanded = 9
    /\ results["A*"].nodesExpanded = 5

(***************************************************************************)
(* C20 as stated: the loop-opening phase of generateMaze never creates a   *)
(* 2 x 2 open pocket: in every grid returned by generateMaze there is no   *)
(* 2 x 2 block of cells that are all non-Wall.                             *)
(***************************************************************************)
OpenPockets(g) ==
    {p \in Cells(g) :
        /\ p[1] + 1 < Rows(g)
        /\ p[2] + 1 < Cols(g)
        /\ \A q \in {p, <<p[1] + 1, p[2]>>, <<p[1], p[2] + 1>>, <<p[1] + 1, p[2] + 1>>} :
              g[q[1]][q[2]] # WALL}

C20_NoOpenPocket ==
    \A i \in DOMAIN gen.calls :
        gen.calls[i].op = "generateMaze" => OpenPockets(gen.calls[i].grid) = {}

(***************************************************************************)
(* C21 (as stated): generateMaze terminates and never reads or writes a    *)
(* cell outside the grid; the loop-opening pass makes at most 5 x target   *)
(* attempts and opens at most target = floor(0.08 * R * C) wall cells,     *)
(* each of which had 2 or 3 Free 4-neighbours when opened.                 *)
(*                                                                         *)
(* DrawnCells are the cells the next attempt can draw.  The part on reads  *)
(* fails: with 3 rows the row drawn is 2 + floor(-u), the last row when    *)
(* u = 0, and the look-up grid[row + 1]?.[col] then falls below the grid   *)
(* (and likewise right of it with 3 columns).                              *)
(***************************************************************************)
DrawnCells ==
    IF gen.phase = "open" /\ loopCondition
    THEN {<<d.row, d.col>> : d \in drawCell(gen.currentRandom, gen.rows, gen.cols)}
    ELSE {}

C21_NeverOutsideGrid ==
    \A p \in DrawnCells :
        /\ p \in Cells(gen.grid)
        /\ gen.grid[p[1]][p[2]] = WALL => neighbourLookups(p[1], p[2]) \subseteq Cells(gen.grid)

(* The cells the next statement of carvePath writes.                       *)
CarveTargets ==
    IF gen.phase # "carve" THEN {}
    ELSE IF gen.call # null THEN {gen.call}
    ELSE IF gen.stack = <<>> \/ gen.stack[Len(gen.stack)].directions = <<>> THEN {}
    ELSE LET top == gen.stack[Len(gen.stack)]
             dir == Head(top.directions)
             next == <<top.current[1] + dir[1], top.current[2] + dir[2]>>
         IN  IF next \in Cells(gen.grid) /\ next \notin gen.visited
             THEN {<<top.current[1] + dir[1] \div 2, top.current[2] + dir[2] \div 2>>}
             ELSE {}

FreeNeighbours(g, p) ==
    Cardinality({q \in Cells(g) : Adjacent(p, q) /\ g[q[1]][q[2]] = FREE})

C21_Bounded ==
    /\ gen.phase # "idle" =>
          /\ CarveTargets \subseteq Cells(gen.grid)
          /\ DrawnCells \subseteq Cells(gen.grid)
    /\ gen.phase = "open" =>
          /\ gen.wallsToOpen = (8 * gen.rows * gen.cols) \div 100
          /\ gen.attempts <= 5 * gen.wallsToOpen
          /\ gen.opened <= gen.wallsToOpen

C21_Opening ==
    (gen.phase = "open" /\ gen'.phase = "open") =>
        LET changed == {p \in Cells(gen.grid) : gen'.grid[p[1]][p[2]] # gen.grid[p[1]][p[2]]}
        IN  /\ gen'.attempts = gen.attempts + 1
            /\ Cardinality(changed) = gen'.opened - gen.opened
            /\ \A p \in changed :
                  /\ gen.grid[p[1]][p[2]] = WALL
                  /\ gen'.grid[p[1]][p[2]] = FREE
                  /\ FreeNeighbours(gen.grid, p) \in {2, 3}

(* Termination of the call, as a variant: the number of statements the    *)
(* running call can still execute at most.  Carving can still enter every  *)
(* unvisited odd cell and take every pending direction of every active     *)
(* carvePath call; the loop-opening pass has its attempts left.            *)
RECURSIVE pendingDirections(_)
pendingDirections(stack) ==
    IF stack = <<>> THEN 0
    ELSE Len(Head(stack).directions) + pendingDirections(Tail(stack))

StepsLeft ==
    CASE gen.phase = "idle" -> 0
      [] gen.phase = "open" -> 1 + 5 * gen.wallsToOpen - gen.attempts
      [] gen.phase = "carve" ->
            LET unvisited == {p \in Cells(gen.grid) : p[1] % 2 = 1 /\ p[2] % 2 = 1} \ gen.visited
            IN  2 + 5 * wallsToOpen(gen.rows, gen.cols)
                  + 10 * Cardinality(unvisited)
                  + 2 * pendingDirections(gen.stack)
                  + Len(gen.stack)
                  + (IF gen.call # null THEN 1 ELSE 0)

C21_Terminating ==
    gen.phase # "idle" => (StepsLeft >= 0 /\ gen' # gen /\ StepsLeft' < StepsLeft)

(* C21 (amended): generateMaze terminates; every cell it writes, and every *)
(* cell grid[row][col] its loop-opening pass draws, lies inside the grid   *)
(* (only the guarded neighbour look-ups of a drawn border cell can fall    *)
(* outside); the pass makes at most 5 x target attempts and opens at most  *)
(* target = floor(0.08 * R * C) wall cells, each of which had 2 or 3 Free  *)
(* 4-neighbours when opened.                                               *)
C21_TerminatesWithinGrid ==
    /\ []C21_Bounded
    /\ [][C21_Opening /\ C21_Terminating]_vars

(* A call that used up its 5 x target attempts after opening a wall.       *)
C21_Witness ==
    /\ gen.phase = "open"
    /\ gen.wallsToOpen > 0
    /\ gen.opened > 0
    /\ gen.opened < gen.wallsToOpen
    /\ gen.attempts = 5 * gen.wallsToOpen

(***************************************************************************)
(* C22: executeBFS explores in level order: along explorationOrder the     *)
(* true shortest distance from the start never decreases, so that every    *)
(* position at distance d is explored before any position at distance      *)
(* d + 1.                                                                  *)
(***************************************************************************)
DistanceFromStart(p) == LayerDistance(grid, {start}, {start}, 0, p)

(* The engine that returned last: a result record is written once, on the *)
(* return, so that it need only be read in the state that follows.         *)
JustReturned(n) ==
    /\ Returned
    /\ \E i \in 1 .. Len(app.plan) :
          /\ app.plan[i] = n
          /\ DOMAIN results = {app.plan[j] : j \in 1 .. i}

C22_BFSLevelOrder ==
    JustReturned("BFS") =>
        \E distance \in {[k \in 1 .. Len(results["BFS"].explorationOrder) |->
                             DistanceFromStart(results["BFS"].explorationOrder[k])]} :
           \A k \in 1 .. Len(distance) - 1 : distance[k] <= distance[k + 1]

(* A search that went through two positions of one level and on to a third *)
(* level.                                                                  *)
C22_Witness ==
    /\ Returned
    /\ "BFS" \in DOMAIN results
    /\ LET order == results["BFS"].explorationOrder
       IN  \E i, j, k \in 1 .. Len(order) :
              /\ i < j
              /\ j < k
              /\ DistanceFromStart(order[i]) = 1
              /\ DistanceFromStart(order[j]) = 1
              /\ DistanceFromStart(order[k]) = 3

(***************************************************************************)
(* C23: in executeAStar and executeWeightedAStar every node removed from   *)
(* the open set has the minimum f among the entries then in the open set   *)
(* and, among those of minimum f, the minimum h; also directly after an    *)
(* in-place decrease-key, which updates g, f and parent of the one entry   *)
(* of that position.                                                       *)
(*                                                                         *)
(* The next node removed is the head of eng.openSet.  ParentOverwritten    *)
(* tells a decrease-key from the state: a node is created with the first   *)
(* of its neighbours to be expanded as its parent, and only a decrease-key *)
(* changes the parent.                                                     *)
(***************************************************************************)
InAStar == pc \in {"A*", "Weighted A*"}

WeightOf == IF pc = "A*" THEN 1 ELSE WEIGHT

Heuristic(p) == Abs(p[1] - goal[1]) + Abs(p[2] - goal[2])

ExpandedAt(p) == CHOOSE i \in 1 .. Len(eng.explorationOrder) : eng.explorationOrder[i] = p

ParentOverwritten(n) ==
    /\ n # start
    /\ \E q \in eng.closedSet :
          /\ Adjacent(q, n)
          /\ ExpandedAt(q) < ExpandedAt(eng.nodeMap[n].parent)

C23_DequeuedIsMinimal ==
    (InAStar /\ Len(eng.openSet) > 0) =>
        LET first == eng.nodeMap[Head(eng.openSet)]
        IN  /\ \A k \in 1 .. Len(eng.openSet) :
                  LET other == eng.nodeMap[eng.openSet[k]]
                  IN  /\ first.f <= other.f
                      /\ first.f = other.f => first.h <= other.h
                      /\ other.position = eng.openSet[k]
                      /\ other.h = Heuristic(other.position)
                      /\ other.f = other.g + WeightOf * other.h
                      /\ other.position # start =>
                            /\ Adjacent(other.parent, other.position)
                            /\ other.g = eng.nodeMap[other.parent].g + 1
            /\ \A j, k \in 1 .. Len(eng.openSet) :
                  eng.openSet[j] = eng.openSet[k] => j = k

(* The node about to be removed had its g lowered while it was open, and   *)
(* other entries are waiting behind it.                                    *)
C23_Witness ==
    /\ InAStar
    /\ Len(eng.openSet) > 1
    /\ ParentOverwritten(Head(eng.openSet))

(***************************************************************************)
(* C30: in executeAStar and executeWeightedAStar, at every loop iteration  *)
(* each position recorded in nodeMap is in exactly one of the open set and *)
(* the closed set, and the open set holds at most one entry per position;  *)
(* so a dequeued node is never already closed, and in executeAStar the g   *)
(* of a node at the moment it is closed is its true shortest distance from *)
(* the start.                                                              *)
(*                                                                         *)
(* The node closed next is the head of the open set; the g of a closed     *)
(* node is never written again.                                            *)
(***************************************************************************)
OpenPositions == {eng.openSet[k] : k \in 1 .. Len(eng.openSet)}

C30_OpenXorClosed ==
    InAStar =>
        /\ \A p \in DOMAIN eng.nodeMap : (p \in OpenPositions) # (p \in eng.closedSet)
        /\ OpenPositions \cup eng.closedSet \subseteq DOMAIN eng.nodeMap
        /\ NoDuplicates(eng.openSet)
        /\ Len(eng.openSet) > 0 => Head(eng.openSet) \notin eng.closedSet
        /\ pc = "A*" =>
              /\ \A p \in eng.closedSet : eng.nodeMap[p].g = DistanceFromStart(p)
              /\ Len(eng.openSet) > 0 =>
                    eng.nodeMap[Head(eng.openSet)].g = DistanceFromStart(Head(eng.openSet))

(* executeAStar with several nodes closed, several open, and one open node *)
(* recorded with more than its shortest distance.                          *)
C30_Witness ==
    /\ pc = "A*"
    /\ Cardinality(eng.closedSet) >= 3
    /\ Len(eng.openSet) >= 2
    /\ \E p \in OpenPositions : eng.nodeMap[p].g > DistanceFromStart(p)

(***************************************************************************)
(* C24: executeIDAStar starts with bound = Manhattan distance from start   *)
(* to goal; after each failed probe the next bound is the minimum f value  *)
(* that exceeded the current bound, which is strictly greater than the     *)
(* current bound; it returns found = false exactly when a probe returns    *)
(* the sentinel, that is when no node with f above the bound was met.      *)
(*                                                                         *)
(* The reference is the set of cycle-free walks a probe with a given bound *)
(* can extend (every node on them is not the goal and has f within the     *)
(* bound); the nodes that exceed the bound are the one-step extensions of  *)
(* those walks.                                                            *)
(***************************************************************************)
FOf(walk) == (Len(walk) - 1) + Heuristic(walk[Len(walk)])

Extensions(walk) ==
    {Append(walk, q) : q \in {q \in Passable(grid) :
                                 /\ Adjacent(walk[Len(walk)], q)
                                 /\ \A k \in 1 .. Len(walk) : walk[k] # q}}

RECURSIVE ProbeWalks(_, _)
ProbeWalks(walks, bound) ==
    LET more == UNION {{w \in Extensions(walk) : FOf(w) <= bound /\ w[Len(w)] # goal}
                          : walk \in walks}
    IN  IF more \subseteq walks THEN walks ELSE ProbeWalks(walks \cup more, bound)

Expandable(bound) ==
    IF FOf(<<start>>) <= bound /\ start # goal THEN ProbeWalks({<<start>>}, bound) ELSE {}

GoalWithin(bound) ==
    \/ start = goal /\ FOf(<<start>>) <= bound
    \/ \E walk \in Expandable(bound) :
          \E w \in Extensions(walk) : w[Len(w)] = goal /\ FOf(w) <= bound

Exceeding(bound) ==
    {FOf(w) : w \in {w \in UNION {Extensions(walk) : walk \in Expandable(bound)}
                        : FOf(w) > bound}}

C24_Probe ==
    /\ (pc # "IDA*" /\ pc' = "IDA*") => eng'.bound = Heuristic(start)
    /\ pc = "IDA*" =>
          \E over \in {Exceeding(eng.bound)}, reached \in {GoalWithin(eng.bound)} :
             /\ pc' = "IDA*" <=> (~reached /\ over # {})
             /\ pc' = "IDA*" =>
                   /\ eng'.bound \in over
                   /\ \A f \in over : eng'.bound <= f
                   /\ eng'.bound > eng.bound
             /\ pc' # "IDA*" =>
                   /\ "IDA*" \in DOMAIN results'
                   /\ results'["IDA*"].found = reached
                   /\ ~results'["IDA*"].found <=> (~reached /\ over = {})

C24_BoundsGrow == [][C24_Probe]_vars

(* A third probe: the bound has been raised twice.                         *)
C24_Witness ==
    /\ pc = "IDA*"
    /\ eng.bound >= Heuristic(start) + 4
    /\ ~GoalWithin(eng.bound)

(***************************************************************************)
(* C25: in the revision with one generic blended state, after every tick   *)
(* of the comparison replay each cell that is neither Start nor Goal and   *)
(* is owned by two or more algorithms has state EXPLORED, and each such    *)
(* cell owned by exactly one algorithm has that algorithm's own state,     *)
(* whatever the order in which the algorithms reached the cell.            *)
(***************************************************************************)
OwnState == [a \in {"dfs", "bfs", "astar"} |->
                CASE a = "dfs" -> DFS_EXPLORED
                  [] a = "bfs" -> BFS_EXPLORED
                  [] a = "astar" -> ASTAR_EXPLORED]

C25_BlendedWhenShared ==
    (Len(app.timers) > 0 /\ app.timers[1].kind = "runComparisonBlended") =>
        \E timer \in {app.timers[1]} :
           \A p \in Cells(timer.grid) :
              timer.grid[p[1]][p[2]] \notin {START, GOAL} =>
                 \E owners \in {OwnersAfter(timer, p, timer.step)} :
                    /\ Cardinality(owners) >= 2 => app.cellStates[p[1]][p[2]] = EXPLORED
                    /\ Cardinality(owners) = 1 =>
                          \A a \in owners : app.cellStates[p[1]][p[2]] = OwnState[a]

(***************************************************************************)
(* C26: when the goal is unreachable, each of DFS, BFS, A* and Weighted A* *)
(* explores exactly the connected component of the start: the positions in *)
(* explorationOrder are the non-Wall cells reachable from the start, and   *)
(* nodesExpanded is the size of that component, not of the grid.           *)
(***************************************************************************)
Component == {p \in Passable(grid) : DistanceFromStart(p) >= 0}

C26_UnreachableExploresComponent ==
    \A n \in {"DFS", "BFS", "A*", "Weighted A*"} :
        (JustReturned(n) /\ ~results[n].found) =>
                /\ {results[n].explorationOrder[i] :
                       i \in 1 .. Len(results[n].explorationOrder)} = Component
                /\ results[n].nodesExpanded = Cardinality(Component)

(* The four engines have failed on a grid whose start component has        *)
(* several cells and leaves a non-Wall cell outside.                       *)
C26_Witness ==
    /\ Returned
    /\ {"DFS", "BFS", "A*", "Weighted A*"} \subseteq DOMAIN results
    /\ \A n \in {"DFS", "BFS", "A*", "Weighted A*"} : ~results[n].found
    /\ Cardinality(Component) >= 5
    /\ Passable(grid) \ Component # {}

(***************************************************************************)
(* C27 (as stated): for every engine, IDA* included, and every grid,       *)
(* explorationOrder is non-empty and begins with the start,                *)
(* every element is an in-bounds non-Wall cell, and the goal appears in    *)
(* explorationOrder exactly when found = true, in which case it is the     *)
(* last element.                                                           *)
(***************************************************************************)
Positions(seq) == {seq[i] : i \in 1 .. Len(seq)}

WellFormedOrder(order) ==
    /\ Len(order) > 0
    /\ order[1] = start
    /\ Positions(order) \subseteq Passable(grid)

GoalLastIffFound(result) ==
    /\ goal \in Positions(result.explorationOrder) <=> result.found
    /\ result.found =>
          /\ result.explorationOrder[Len(result.explorationOrder)] = goal
          /\ result.explorationOrder[result.nodesExpanded] = goal

C27_Original ==
    \A n \in Engines :
        JustReturned(n) =>
            /\ WellFormedOrder(results[n].explorationOrder)
            /\ GoalLastIffFound(results[n])

(* C27 (amended): for every engine and every grid, explorationOrder is     *)
(* non-empty and begins with the start, and every element is an in-bounds  *)
(* non-Wall cell.  For DFS, BFS, A* and Weighted A* the goal appears in    *)
(* explorationOrder exactly when found = true, in which case it is the     *)
(* last element, at index nodesExpanded - 1.  executeIDAStar returns from  *)
(* a probe at the goal before recording it: its explorationOrder never     *)
(* contains the goal, found or not.                                        *)
C27_GoalLastExceptIDAStar ==
    \A n \in Engines :
        JustReturned(n) =>
            /\ WellFormedOrder(results[n].explorationOrder)
            /\ n # "IDA*" => GoalLastIffFound(results[n])
            /\ n = "IDA*" => goal \notin Positions(results[n].explorationOrder)

(* All five engines found the goal after exploring other cells.            *)
C27_Witness ==
    /\ AllDone
    /\ \A n \in Engines : results[n].found /\ results[n].nodesExpanded >= 3

(***************************************************************************)
(* C28: every run that starts eventually completes.  After runAlgorithm or *)
(* runComparison has set isRunning, under fair firing of the interval      *)
(* timer the replay processes all exploration ticks and one final tick,    *)
(* clears its timer, stores the results (one record for a single run; DFS, *)
(* BFS, A* in that order for a comparison) and sets isRunning back to      *)
(* false, whether or not a path was found.                                 *)
(***************************************************************************)
ExplorationTicks(timer) ==
    IF timer.kind = "animateAlgorithm"
    THEN Len(timer.result.explorationOrder)
    ELSE Max(Max(Len(timer.dfsResult.explorationOrder),
                 Len(timer.bfsResult.explorationOrder)),
             Len(timer.astarResult.explorationOrder))

ResultNames == [k \in 1 .. Len(app'.results) |-> app'.results[k].algorithmName]

C28_Completion ==
    /\ (~app.isRunning /\ app'.isRunning) => (app'.timers = <<>> /\ app'.results = <<>>)
    /\ (app.isRunning /\ Len(app.timers) > 0 /\ app'.isRunning /\ app' # app) =>
          /\ Len(app'.timers) = 1
          /\ app'.timers[1].step = app.timers[1].step + 1
          /\ app'.timers[1].step <= ExplorationTicks(app.timers[1])
          /\ app'.results = <<>>
    /\ (app.isRunning /\ ~app'.isRunning) =>
          /\ Len(app.timers) = 1
          /\ app.timers[1].step = ExplorationTicks(app.timers[1])
          /\ app'.timers = <<>>
          /\ IF app.timers[1].kind = "animateAlgorithm"
             THEN ResultNames = <<app.selectedAlgorithm>>
             ELSE ResultNames = <<"DFS", "BFS", "A*">>

C28_RunsComplete ==
    /\ [][C28_Completion]_vars
    /\ app.isRunning ~> ~app.isRunning

(* A comparison that completed without a path, and showed it.              *)
C28_Witness ==
    /\ ~app.isRunning
    /\ app.timers = <<>>
    /\ Len(app.results) = 3
    /\ \A k \in 1 .. 3 : ~app.results[k].found /\ app.results[k].nodesExpanded >= 2

(***************************************************************************)
(* C29: every grid returned by generateMaze or createEmptyMaze for rows,   *)
(* cols >= 3 is enclosed: all cells of the first and last row and of the   *)
(* first and last column are Wall; neither carving nor loop-opening ever   *)
(* opens a border cell.                                                    *)
(***************************************************************************)
Border(g) ==
    {p \in Cells(g) : p[1] = 0 \/ p[1] = Rows(g) - 1 \/ p[2] = 0 \/ p[2] = Cols(g) - 1}

Enclosed(g) == \A p \in Border(g) : g[p[1]][p[2]] = WALL

C29_Enclosed ==
    /\ gen.phase # "idle" => Enclosed(gen.grid)
    /\ \A i \in DOMAIN gen.calls :
          /\ gen.calls[i].args[1] >= 3
          /\ gen.calls[i].args[2] >= 3
          /\ Enclosed(gen.calls[i].grid)

(* generateMaze(3, 5, 2088216195) after its first loop-opening attempt,    *)
(* which drew the border cell (2,2) and left it closed.                    *)
C29_Witness ==
    /\ gen.phase = "open"
    /\ gen.args = <<3, 5, 2088216195>>
    /\ gen.attempts = 1
    /\ gen.opened = 0
    /\ gen.grid[1][2] = FREE

====
